---- MODULE Spec2Model ----
(***************************************************************************)
(* A model of lessonplan_bot.py: the syllabus parser, the outline mapper,  *)
(* the date inference, the topic/objective suggestion and the lesson-row   *)
(* generator / parser / normaliser; of the draft and export part of the    *)
(* page in web_app.py; and of the credential reader of                     *)
(* google_drive_uploader.py.                                               *)
(*                                                                         *)
(* A Python str is a sequence of characters.  A character is a one-token   *)
(* string: ASCII characters stand for themselves, a Hangul syllable is     *)
(* written as its romanisation ("ju" is the week marker, "hwa" Tuesday).   *)
(***************************************************************************)
EXTENDS Integers, Sequences, FiniteSets, TLC

VARIABLES
    pc,         \* position of the caller: which call has returned last
    text,       \* the text handed to the parser / the outline mapper
    today,      \* the year date.today() reports
    week_info,  \* the week record handed to inference and generation
    call,       \* the other keyword arguments of the call
    result,     \* what the last call returned or raised
    rows,       \* the list of lesson rows
    lines,      \* extract_outline_code_title_map: the stripped lines
    idx,        \* extract_outline_code_title_map: index of the current line
    occ,        \* extract_outline_code_title_map: index of the current code match
    mapping,    \* extract_outline_code_title_map: the mapping built so far
    st,         \* web_app.py: st.session_state and what the last run of the page exported
    earlier     \* the result of an earlier call with the same arguments, and its year

vars == <<pc, text, today, week_info, call, result, rows, lines, idx, occ, mapping, st, earlier>>

\* None where a str is expected: a value no str equals
None == <<"<None>">>
NoResult == [kind |-> "none"]
Return(v) == [kind |-> "return", value |-> v]
Raise(e) == [kind |-> "raise", exc |-> e]

-----------------------------------------------------------------------------
(* Characters *)

Digits == {"0", "1", "2", "3", "4", "5", "6", "7", "8", "9"}
\* string.ascii_uppercase and string.ascii_lowercase, letter by letter
LatinUpper ==
    <<"A", "B", "C", "D", "E", "F", "G", "H", "I", "J", "K", "L", "M",
      "N", "O", "P", "Q", "R", "S", "T", "U", "V", "W", "X", "Y", "Z">>
LatinLower ==
    <<"a", "b", "c", "d", "e", "f", "g", "h", "i", "j", "k", "l", "m",
      "n", "o", "p", "q", "r", "s", "t", "u", "v", "w", "x", "y", "z">>
UpperLatin == {LatinUpper[k] : k \in 1..Len(LatinUpper)}
LowerLatin == {LatinLower[k] : k \in 1..Len(LatinLower)}
Latin == UpperLatin \cup LowerLatin
WeekdayChars == {"wol", "hwa", "su", "mok", "geum", "to", "il"}
Hangul == WeekdayChars \cup
    {"ju", "bun", "gong", "hyu", "gang", "dae", "che", "haeng", "sa", "si", "heom",
     "do", "ip", "jeon", "gae", "jeong", "ri", "gi", "mich", "chul", "seok", "hwak",
     "in", "ji", "nan", "gan", "bok", "seup", "seol", "myeong", "hwal", "dong", "me",
     "mo", "nyeom", "hyeong", "seong", "pyeong", "ga", "gwa", "je", "an",
     "nae", "da", "eum", "ye", "go", "jip", "jung", "yu", "jil", "ui", "eung", "dap",
     "ma", "mu", "haek", "sim", "dan", "won", "hak", "so", "i", "hae",
     "mi", "eop", "reul", "ba", "tang", "eu", "ro", "eul", "ha", "yong", "han",
     "gwan", "ryeon", "jeok", "cha", "bo", "bal", "guk", "eo", "yeong"}
Whitespace == {" ", "\n", "\t", "\r"}
WordChars == Digits \cup Latin \cup Hangul \cup {"_"}

Upper(c) ==
    IF c \in LowerLatin THEN LatinUpper[CHOOSE k \in 1..Len(LatinLower) : LatinLower[k] = c] ELSE c
Lower(c) ==
    IF c \in UpperLatin THEN LatinLower[CHOOSE k \in 1..Len(LatinUpper) : LatinUpper[k] = c] ELSE c

DigitVal(c) ==
    CASE c = "0" -> 0 [] c = "1" -> 1 [] c = "2" -> 2 [] c = "3" -> 3 [] c = "4" -> 4
      [] c = "5" -> 5 [] c = "6" -> 6 [] c = "7" -> 7 [] c = "8" -> 8 [] c = "9" -> 9
DigitChar(n) == <<"0", "1", "2", "3", "4", "5", "6", "7", "8", "9">>[n + 1]

-----------------------------------------------------------------------------
(* str operations *)

\* dict.get(key, default), with a missing key written None
Get(d, key, default) == IF key \in DOMAIN d /\ d[key] # None THEN d[key] ELSE default
\* x or default, for a str or None
OrElse(x, default) == IF x = None \/ x = <<>> THEN default ELSE x

Min(a, b) == IF a < b THEN a ELSE b
Max(a, b) == IF a > b THEN a ELSE b

\* s[:n]
Take(s, n) == SubSeq(s, 1, Min(n, Len(s)))
\* s[n:] with n a 0-based offset
Drop(s, n) == SubSeq(s, n + 1, Len(s))
\* c * n
Rep(c, n) == [i \in 1..n |-> c]

\* str.strip(chars) / str.rstrip(chars)
LStripCount(s, chars) ==
    IF \A i \in 1..Len(s) : s[i] \in chars THEN Len(s)
    ELSE (CHOOSE i \in 1..Len(s) : s[i] \notin chars /\ \A j \in 1..(i - 1) : s[j] \in chars) - 1
RStripEnd(s, chars) ==
    IF \A i \in 1..Len(s) : s[i] \in chars THEN 0
    ELSE CHOOSE i \in 1..Len(s) : s[i] \notin chars /\ \A j \in (i + 1)..Len(s) : s[j] \in chars
StripChars(s, chars) == SubSeq(s, LStripCount(s, chars) + 1, RStripEnd(s, chars))
RStripChars(s, chars) == SubSeq(s, 1, RStripEnd(s, chars))
Strip(s) == StripChars(s, Whitespace)
RStrip(s) == RStripChars(s, Whitespace)

\* sub in s, and the 0-based offsets at which sub occurs in s
OccursAt(s, sub, i) == i + Len(sub) <= Len(s) /\ SubSeq(s, i + 1, i + Len(sub)) = sub
Contains(s, sub) == \E i \in 0..Len(s) : OccursAt(s, sub, i)
EndsWith(s, sub) == Len(sub) <= Len(s) /\ OccursAt(s, sub, Len(s) - Len(sub))

\* sep.join(parts)
RECURSIVE Join(_, _)
Join(parts, sep) ==
    IF Len(parts) = 0 THEN <<>>
    ELSE IF Len(parts) = 1 THEN parts[1]
    ELSE parts[1] \o sep \o Join(Tail(parts), sep)

\* s.split(sep, maxsplit) for a one-character sep; maxsplit < 0 is no limit
RECURSIVE SplitChar(_, _, _)
SplitChar(s, sep, maxsplit) ==
    IF maxsplit = 0 \/ \A i \in 1..Len(s) : s[i] # sep THEN <<s>>
    ELSE LET k == CHOOSE i \in 1..Len(s) : s[i] = sep /\ \A j \in 1..(i - 1) : s[j] # sep
         IN <<SubSeq(s, 1, k - 1)>> \o SplitChar(Drop(s, k), sep, maxsplit - 1)

\* s.split(): the maximal runs of non-whitespace
RECURSIVE SplitWS(_)
SplitWS(s) ==
    LET t == SubSeq(s, LStripCount(s, Whitespace) + 1, Len(s)) IN
    IF Len(t) = 0 THEN <<>>
    ELSE LET n == IF \A i \in 1..Len(t) : t[i] \notin Whitespace THEN Len(t)
                  ELSE (CHOOSE i \in 1..Len(t) :
                            t[i] \in Whitespace /\ \A j \in 1..(i - 1) : t[j] \notin Whitespace) - 1
         IN <<SubSeq(t, 1, n)>> \o SplitWS(Drop(t, n))

\* s.splitlines(): breaks at \n, \r and \r\n; no empty last line
LineBreaks == {"\n", "\r"}
RECURSIVE SplitLines(_)
SplitLines(s) ==
    IF Len(s) = 0 THEN <<>>
    ELSE IF \A i \in 1..Len(s) : s[i] \notin LineBreaks THEN <<s>>
    ELSE LET k == CHOOSE i \in 1..Len(s) : s[i] \in LineBreaks /\ \A j \in 1..(i - 1) : s[j] \notin LineBreaks
             w == IF s[k] = "\r" /\ k < Len(s) /\ s[k + 1] = "\n" THEN 2 ELSE 1
         IN <<SubSeq(s, 1, k - 1)>> \o SplitLines(Drop(s, k + w - 1))

\* the elements of a sequence that satisfy a test, in order
RECURSIVE NonEmptyOnly(_)
NonEmptyOnly(parts) ==
    IF Len(parts) = 0 THEN <<>>
    ELSE (IF Len(parts[1]) > 0 THEN <<parts[1]>> ELSE <<>>) \o NonEmptyOnly(Tail(parts))

-----------------------------------------------------------------------------
(* Literal texts of lessonplan_bot.py *)

S_doip == <<"do", "ip">>
S_jeongae == <<"jeon", "gae">>
S_jeongni == <<"jeong", "ri">>
S_10bun == <<"1", "0", "bun">>
S_25bun == <<"2", "5", "bun">>
S_5bun == <<"5", "bun">>
\* "gido mich chulseok hwagin, jinan sigan bokseup"
S_intro_prayer ==
    <<"gi", "do", " ", "mich", " ", "chul", "seok", " ", "hwak", "in", ",", " ",
      "ji", "nan", " ", "si", "gan", " ", "bok", "seup">>
S_intro_plain ==
    <<"chul", "seok", " ", "hwak", "in", ",", " ", "ji", "nan", " ", "si", "gan", " ", "bok", "seup">>
\* "haeksim danwon hakseup"
S_develop_default == <<"haek", "sim", " ", "dan", "won", " ", "hak", "seup">>
\* " seolmyeong mich hwaldong\n- memo: "
S_develop_mid ==
    <<" ", "seol", "myeong", " ", "mich", " ", "hwal", "dong", "\n", "-", " ", "me", "mo", ":", " ">>
\* "gaenyeom hwagin hwaldong"
S_note_default == <<"gae", "nyeom", " ", "hwak", "in", " ", "hwal", "dong">>
S_jipjung_yudo == <<"jip", "jung", " ", "yu", "do">>
S_jirui_eungdap == <<"jil", "ui", "eung", "dap">>
\* "hyeongseongpyeongga, gwaje annae, daeum sigan yego"
S_closing ==
    <<"hyeong", "seong", "pyeong", "ga", ",", " ", "gwa", "je", " ", "an", "nae", ",", " ",
      "da", "eum", " ", "si", "gan", " ", "ye", "go">>
S_mamuri == <<"ma", "mu", "ri">>

-----------------------------------------------------------------------------
(* Regular expressions.  Offsets are 0-based as in Python: the character at *)
(* offset i of s is s[i + 1].  A match is a record with its start and end   *)
(* offsets; NoMatch has ok = FALSE.                                          *)

At(s, i) == IF i >= 0 /\ i < Len(s) THEN s[i + 1] ELSE ""
NoMatch == [ok |-> FALSE]

\* int(str) of a run of decimal digits, and str(int) / f"{n:02d}" of n >= 0
RECURSIVE StrToInt(_)
StrToInt(s) == IF Len(s) = 0 THEN 0 ELSE 10 * StrToInt(SubSeq(s, 1, Len(s) - 1)) + DigitVal(s[Len(s)])
RECURSIVE IntToStr(_)
IntToStr(n) == IF n < 10 THEN <<DigitChar(n)>> ELSE IntToStr(n \div 10) \o <<DigitChar(n % 10)>>
Pad2(n) == IF n < 10 THEN <<"0">> \o IntToStr(n) ELSE IntToStr(n)

\* \d{1,2} at offset i, greedy: how many digits it takes (0: no match)
DigitRun2(s, i) ==
    IF At(s, i) \notin Digits THEN 0 ELSE IF At(s, i + 1) \in Digits THEN 2 ELSE 1
\* \s* at offset i: the offset after the whitespace run
RECURSIVE SkipWS(_, _)
SkipWS(s, i) == IF At(s, i) \in Whitespace THEN SkipWS(s, i + 1) ELSE i

\* the non-overlapping matches of a pattern, left to right (re.finditer /
\* re.findall); m[i] is the match the pattern has at offset i
RECURSIVE ScanFrom(_, _, _)
ScanFrom(m, n, i) ==
    LET hits == {j \in i..n : m[j].ok}
        first == CHOOSE j \in hits : \A k \in hits : j <= k
    IN IF hits = {} THEN <<>>
       ELSE <<m[first]>> \o ScanFrom(m, n, IF m[first].end > first THEN m[first].end ELSE first + 1)

\* list(dict.fromkeys(items)): the first occurrence of each item, in order
RECURSIVE Dedup(_)
Dedup(items) ==
    IF Len(items) = 0 THEN <<>>
    ELSE LET front == Dedup(SubSeq(items, 1, Len(items) - 1))
             last == items[Len(items)]
         IN IF \E k \in 1..Len(front) : front[k] = last THEN front ELSE Append(front, last)

\* r"(\d{1,2})[./-](\d{1,2})" at offset i.  The first group is followed
\* directly by the separator, so giving back a digit never helps; the second
\* group is greedy.
MonthDayMatch(s, i) ==
    LET n1 == DigitRun2(s, i)
        n2 == DigitRun2(s, i + n1 + 1)
    IN IF n1 = 0 \/ At(s, i + n1) \notin {".", "/", "-"} \/ n2 = 0 THEN NoMatch
       ELSE [ok |-> TRUE, start |-> i, end |-> i + n1 + 1 + n2,
             mm |-> SubSeq(s, i + 1, i + n1), dd |-> SubSeq(s, i + n1 + 2, i + n1 + 1 + n2)]
MonthDayFindAll(s) == ScanFrom([i \in 0..Len(s) |-> MonthDayMatch(s, i)], Len(s), 0)

\* DATE_DAY_RE at offset i: month.day, \s*, an optional "(", a weekday
\* character and an optional ")".  A shorter day group, a shorter whitespace
\* run or dropping the "(" leaves a character no weekday equals, so the
\* greedy choice is the only one that can match.
DateDayMatch(s, i) ==
    LET md == MonthDayMatch(s, i)
        q == SkipWS(s, md.end)
        r == IF At(s, q) = "(" THEN q + 1 ELSE q
    IN IF ~md.ok THEN NoMatch
       ELSE IF At(s, r) \notin WeekdayChars THEN NoMatch
       ELSE [ok |-> TRUE, start |-> i, end |-> IF At(s, r + 1) = ")" THEN r + 2 ELSE r + 1,
             mm |-> md.mm, dd |-> md.dd, day |-> At(s, r)]
DateDayFindAll(s) == ScanFrom([i \in 0..Len(s) |-> DateDayMatch(s, i)], Len(s), 0)

\* (?:\s*/\s*[weekday])* from offset i: the offset after the last repetition.
\* spaced is whether \s* is in the pattern (WEEKDAY_TOKEN_RE) or not
\* (DAY_ONLY_RE).
RECURSIVE WeekdayRunEnd(_, _, _)
WeekdayRunEnd(s, i, spaced) ==
    LET a == IF spaced THEN SkipWS(s, i) ELSE i
        b == IF spaced THEN SkipWS(s, a + 1) ELSE a + 1
    IN IF At(s, a) = "/" /\ At(s, b) \in WeekdayChars THEN WeekdayRunEnd(s, b + 1, spaced) ELSE i

\* WEEKDAY_TOKEN_RE / DAY_ONLY_RE at offset i: a weekday character and one
\* or more "/ weekday" repetitions
WeekdayRunMatch(s, i, spaced) ==
    LET e == WeekdayRunEnd(s, i + 1, spaced)
    IN IF At(s, i) \in WeekdayChars /\ e > i + 1
       THEN [ok |-> TRUE, start |-> i, end |-> e, group |-> SubSeq(s, i + 1, e)]
       ELSE NoMatch
WeekdayTokenFindAll(s) == ScanFrom([i \in 0..Len(s) |-> WeekdayRunMatch(s, i, TRUE)], Len(s), 0)
DayOnlyFindAll(s) == ScanFrom([i \in 0..Len(s) |-> WeekdayRunMatch(s, i, FALSE)], Len(s), 0)

\* HOLIDAY_RE.search(s): one of the five keywords occurs in s
S_hyugang == <<"hyu", "gang">>
S_gonghyuil == <<"gong", "hyu", "il">>
S_daechehyuil == <<"dae", "che", "hyu", "il">>
S_haengsa == <<"haeng", "sa">>
S_siheom == <<"si", "heom">>
HolidayWords == {S_hyugang, S_gonghyuil, S_daechehyuil, S_haengsa, S_siheom}
\* HOLIDAY_RE without its second alternative
HolidaySearchFourWords(s) == \E w \in HolidayWords \ {S_gonghyuil} : Contains(s, w)
HolidaySearch(s) == \E w \in HolidayWords : Contains(s, w)

-----------------------------------------------------------------------------
(* The proleptic Gregorian calendar of datetime                             *)

IsLeap(y) == y % 4 = 0 /\ (y % 100 # 0 \/ y % 400 = 0)
DaysInMonth(y, m) ==
    IF m = 2 THEN (IF IsLeap(y) THEN 29 ELSE 28)
    ELSE IF m \in {4, 6, 9, 11} THEN 30 ELSE 31
\* datetime(y, m, d) raises ValueError unless this holds
ValidDate(y, m, d) ==
    /\ y >= 1 /\ y <= 9999
    /\ m >= 1 /\ m <= 12
    /\ d >= 1 /\ d <= DaysInMonth(y, m)
Date(y, m, d) == [year |-> y, month |-> m, day |-> d]

RECURSIVE DaysBeforeMonth(_, _)
DaysBeforeMonth(y, m) == IF m = 1 THEN 0 ELSE DaysBeforeMonth(y, m - 1) + DaysInMonth(y, m - 1)
DaysBeforeYear(y) == (y - 1) * 365 + (y - 1) \div 4 - (y - 1) \div 100 + (y - 1) \div 400
ToOrdinal(d) == DaysBeforeYear(d.year) + DaysBeforeMonth(d.year, d.month) + d.day
\* date.weekday(): Monday is 0
WeekdayOf(d) == (ToOrdinal(d) + 6) % 7
\* d + timedelta(days=1)
NextDay(d) ==
    IF d.day < DaysInMonth(d.year, d.month) THEN Date(d.year, d.month, d.day + 1)
    ELSE IF d.month < 12 THEN Date(d.year, d.month + 1, 1)
    ELSE Date(d.year + 1, 1, 1)

\* WEEKDAY_MAP and its inverse weekday_rev
WEEKDAY_MAP(c) ==
    CASE c = "wol" -> 0 [] c = "hwa" -> 1 [] c = "su" -> 2 [] c = "mok" -> 3
      [] c = "geum" -> 4 [] c = "to" -> 5 [] c = "il" -> 6
weekday_rev(n) == <<"wol", "hwa", "su", "mok", "geum", "to", "il">>[n + 1]

-----------------------------------------------------------------------------
(* Date inference: infer_lesson_datetime, infer_class_dates_from_week       *)

\* " [hyugang/haengsa hwagin]"
S_holiday_suffix == <<" ", "[", "hyu", "gang", "/", "haeng", "sa", " ", "hwak", "in", "]">>
\* "iljeong mihwagin"
S_unconfirmed == <<"il", "jeong", " ", "mi", "hwak", "in">>

\* int(week_info.get("year") or date.today().year); a missing year is 0
YearOf(wi, now) == IF wi.year = 0 THEN now ELSE wi.year
\* " ".join([str(raw_text), str(details)])
RawOf(wi) == wi.raw_text \o <<" ">> \o wi.details

\* infer_lesson_datetime returning result without "or" the placeholder
infer_lesson_datetime_or_empty(wi, now) ==
    LET year == YearOf(wi, now)
        raw == RawOf(wi)
        found == DateDayFindAll(raw)
        parts == [k \in 1..Len(found) |->
                     IntToStr(year) \o <<".">> \o Pad2(StrToInt(found[k].mm)) \o <<".">>
                     \o Pad2(StrToInt(found[k].dd)) \o <<"(", found[k].day, ")">>]
        day_hint == DayOnlyFindAll(raw)
        range_hint == wi.date_range
        result0 == IF Len(parts) > 0 THEN Join(Dedup(parts), <<",", " ">>)
                   ELSE IF Len(day_hint) > 0
                        THEN range_hint \o <<" ", "(">> \o day_hint[1].group \o <<")">>
                        ELSE range_hint
        result1 == IF HolidaySearch(raw) THEN result0 \o S_holiday_suffix ELSE result0
    IN Return(result1)

infer_lesson_datetime(wi, now) ==
    LET year == YearOf(wi, now)
        raw == RawOf(wi)
        found == DateDayFindAll(raw)
        parts == [k \in 1..Len(found) |->
                     IntToStr(year) \o <<".">> \o Pad2(StrToInt(found[k].mm)) \o <<".">>
                     \o Pad2(StrToInt(found[k].dd)) \o <<"(", found[k].day, ")">>]
        day_hint == DayOnlyFindAll(raw)
        range_hint == wi.date_range
        result0 == IF Len(parts) > 0 THEN Join(Dedup(parts), <<",", " ">>)
                   ELSE IF Len(day_hint) > 0
                        THEN range_hint \o <<" ", "(">> \o day_hint[1].group \o <<")">>
                        ELSE range_hint
        result1 == IF HolidaySearch(raw) THEN result0 \o S_holiday_suffix ELSE result0
    IN Return(OrElse(result1, S_unconfirmed))

\* DatesFrom with "while cur < end": the last day of the range is lost
RECURSIVE DatesFromExclusive(_, _, _)
DatesFromExclusive(cur, end, target_days) ==
    IF ToOrdinal(cur) >= ToOrdinal(end) THEN <<>>
    ELSE (IF target_days = {} \/ WeekdayOf(cur) \in target_days THEN <<cur>> ELSE <<>>)
         \o DatesFromExclusive(NextDay(cur), end, target_days)

\* the loop without "not target_days": with no weekday named no date is kept
RECURSIVE DatesFromNamedOnly(_, _, _)
DatesFromNamedOnly(cur, end, target_days) ==
    IF ToOrdinal(cur) > ToOrdinal(end) THEN <<>>
    ELSE (IF WeekdayOf(cur) \in target_days THEN <<cur>> ELSE <<>>)
         \o DatesFromNamedOnly(NextDay(cur), end, target_days)

\* the dates cur, cur + 1 day, ... up to end that the weekday filter keeps
RECURSIVE DatesFrom(_, _, _)
DatesFrom(cur, end, target_days) ==
    IF ToOrdinal(cur) > ToOrdinal(end) THEN <<>>
    ELSE (IF target_days = {} \/ WeekdayOf(cur) \in target_days THEN <<cur>> ELSE <<>>)
         \o DatesFrom(NextDay(cur), end, target_days)

\* re.findall of the weekday characters inside every WEEKDAY_TOKEN_RE match
WeekdayTokens(raw) ==
    LET found == WeekdayTokenFindAll(raw)
    IN UNION {{found[k].group[j] : j \in {j \in 1..Len(found[k].group) : found[k].group[j] \in WeekdayChars}}
              : k \in 1..Len(found)}

DateLabel(d) == IntToStr(d.month) \o <<".">> \o IntToStr(d.day) \o <<"(", weekday_rev(WeekdayOf(d)), ")">>

\* lines 187-225, in terms of the local names year, raw and dr
ClassDatesBody(wi, now, year, raw, dr) ==
    LET mmdd == MonthDayFindAll(dr)
        m1 == StrToInt(mmdd[1].mm)
        d1 == StrToInt(mmdd[1].dd)
        m2 == StrToInt(mmdd[2].mm)
        d2 == StrToInt(mmdd[2].dd)
        start == Date(year, m1, d1)
        end0 == Date(year, m2, d2)
        rolled == ToOrdinal(end0) < ToOrdinal(start)
        end == IF rolled THEN Date(year + 1, m2, d2) ELSE end0
        target_days == {WEEKDAY_MAP(t) : t \in WeekdayTokens(raw)}
        found == DateDayFindAll(raw)
        explicit == [k \in 1..Len(found) |->
                        IntToStr(StrToInt(found[k].mm)) \o <<".">> \o IntToStr(StrToInt(found[k].dd))
                        \o <<"(", found[k].day, ")">>]
        filtered == DatesFrom(start, end, target_days)
        all_dates == IF Len(filtered) > 0 THEN filtered
                     ELSE IF start # end THEN <<start, end>> ELSE <<start>>
        label == Join([k \in 1..Len(all_dates) |-> DateLabel(all_dates[k])], <<",", " ">>)
        suffix == IF HolidaySearch(raw) THEN S_holiday_suffix ELSE <<>>
    IN IF Len(mmdd) < 2 THEN infer_lesson_datetime(wi, now)
       ELSE IF ~ValidDate(year, m1, d1) \/ ~ValidDate(year, m2, d2) THEN Raise("ValueError")
       ELSE IF rolled /\ ~ValidDate(year + 1, m2, d2) THEN Raise("ValueError")
       ELSE IF Len(explicit) > 0 THEN Return(Join(Dedup(explicit), <<",", " ">>) \o suffix)
       ELSE Return(label \o suffix)

infer_class_dates_from_week(wi, now) ==
    ClassDatesBody(wi, now, YearOf(wi, now), RawOf(wi), wi.date_range)

-----------------------------------------------------------------------------
(* Subsection codes: SUBSECTION_CODE_RE, extract_week_subsection_codes      *)

\* \b at offset i: exactly one of the characters around i is a word character
WordBoundary(s, i) == (At(s, i - 1) \in WordChars) # (At(s, i) \in WordChars)

\* SUBSECTION_CODE_RE at offset i: \b, one or two digits, one ASCII letter, \b.
\* After two digits the letter must follow, so one digit cannot match instead.
SubsectionCodeMatch(s, i) ==
    LET n == DigitRun2(s, i)
    IN IF n > 0 /\ WordBoundary(s, i) /\ At(s, i + n) \in Latin /\ WordBoundary(s, i + n + 1)
       THEN [ok |-> TRUE, start |-> i, end |-> i + n + 1, code |-> SubSeq(s, i + 1, i + n + 1)]
       ELSE NoMatch
SubsectionCodeFindIter(s) == ScanFrom([i \in 0..Len(s) |-> SubsectionCodeMatch(s, i)], Len(s), 0)

\* str.upper() / str.lower()
UpperStr(s) == [k \in 1..Len(s) |-> Upper(s[k])]
LowerStr(s) == [k \in 1..Len(s) |-> Lower(s[k])]

\* the codes kept as the text writes them, without upper()
extract_week_subsection_codes_as_written(wi) ==
    LET search_space == Join(<<wi.raw_text, wi.details, Join(wi.events, <<" ">>)>>, <<" ">>)
        found == SubsectionCodeFindIter(search_space)
    IN Dedup([k \in 1..Len(found) |-> found[k].code])

extract_week_subsection_codes(wi) ==
    LET search_space == Join(<<wi.raw_text, wi.details, Join(wi.events, <<" ">>)>>, <<" ">>)
        found == SubsectionCodeFindIter(search_space)
    IN Dedup([k \in 1..Len(found) |-> UpperStr(found[k].code)])

-----------------------------------------------------------------------------
(* Week segmentation: WEEK_RE, CLASS_RE, YEAR_RE, parse_weeks_from_text     *)

\* the WeekInfo dataclass
WeekInfo(week_no, date_range, events, details, raw_text, year) ==
    [week_no |-> week_no, date_range |-> date_range, events |-> events,
     details |-> details, raw_text |-> raw_text, year |-> year]

S_NA == <<"N", "/", "A">>

DetailsMax == 400
RawTextMax == 2500
FallbackMax == 500

\* "주차 정보 없음"
S_no_week_info == <<"ju", "cha", " ", "jeong", "bo", " ", "eop", "eum">>

\* the offset of the end of the line that holds offset i
LineEnd(s, i) ==
    IF \A k \in i..(Len(s) - 1) : At(s, k) # "\n" THEN Len(s)
    ELSE CHOOSE k \in i..(Len(s) - 1) : At(s, k) = "\n" /\ \A j \in i..(k - 1) : At(s, j) # "\n"

\* WEEK_RE at offset i: a line start, \s*, one or two digits, \s*, the week
\* marker, \s*, the date range D[./]D \s* [-~] \s* D[./]D, and the tail up to
\* the end of the line.  Every number is followed by a character no digit
\* equals, so each \d{1,2} takes the digits there are.
WeekMatch(s, i) ==
    LET a == SkipWS(s, i)
        n == DigitRun2(s, a)
        b == SkipWS(s, a + n)
        c == SkipWS(s, b + 1)
        n1 == DigitRun2(s, c)
        n2 == DigitRun2(s, c + n1 + 1)
        e == SkipWS(s, c + n1 + 1 + n2)
        f == SkipWS(s, e + 1)
        n3 == DigitRun2(s, f)
        n4 == DigitRun2(s, f + n3 + 1)
        g == f + n3 + 1 + n4
    IN IF /\ (i = 0 \/ At(s, i - 1) = "\n")
          /\ n > 0 /\ At(s, b) = "ju"
          /\ n1 > 0 /\ At(s, c + n1) \in {".", "/"} /\ n2 > 0
          /\ At(s, e) \in {"-", "~"}
          /\ n3 > 0 /\ At(s, f + n3) \in {".", "/"} /\ n4 > 0
       THEN [ok |-> TRUE, start |-> i, end |-> LineEnd(s, g),
             week_no |-> SubSeq(s, a + 1, a + n), date_range |-> SubSeq(s, c + 1, g)]
       ELSE NoMatch
WeekFindIter(s) == ScanFrom([i \in 0..Len(s) |-> WeekMatch(s, i)], Len(s), 0)

\* how many ASCII letters, up to four, stand at offset i
LetterRun(s, i) ==
    IF At(s, i) \notin Latin THEN 0
    ELSE IF At(s, i + 1) \notin Latin THEN 1
    ELSE IF At(s, i + 2) \notin Latin THEN 2
    ELSE IF At(s, i + 3) \notin Latin THEN 3 ELSE 4

\* CLASS_RE at offset i: \b, then digits and a letter, or else one to three
\* letters and digits, then \b
ClassMatch(s, i) ==
    LET n == DigitRun2(s, i)
        k == LetterRun(s, i)
        d == DigitRun2(s, i + k)
    IN IF ~WordBoundary(s, i) THEN NoMatch
       ELSE IF n > 0 /\ At(s, i + n) \in Latin /\ WordBoundary(s, i + n + 1)
            THEN [ok |-> TRUE, start |-> i, end |-> i + n + 1, group |-> SubSeq(s, i + 1, i + n + 1)]
       ELSE IF k >= 1 /\ k <= 3 /\ d > 0 /\ WordBoundary(s, i + k + d)
            THEN [ok |-> TRUE, start |-> i, end |-> i + k + d, group |-> SubSeq(s, i + 1, i + k + d)]
       ELSE NoMatch
ClassFindAll(s) == ScanFrom([i \in 0..Len(s) |-> ClassMatch(s, i)], Len(s), 0)

\* YEAR_RE at offset i: \b, "20", two digits, \b
YearMatch(s, i) ==
    IF /\ WordBoundary(s, i) /\ At(s, i) = "2" /\ At(s, i + 1) = "0"
       /\ At(s, i + 2) \in Digits /\ At(s, i + 3) \in Digits /\ WordBoundary(s, i + 4)
    THEN [ok |-> TRUE, start |-> i, end |-> i + 4, group |-> SubSeq(s, i + 1, i + 4)]
    ELSE NoMatch
\* YEAR_RE.search(s): the leftmost match
YearSearch(s) ==
    LET hits == {i \in 0..Len(s) : YearMatch(s, i).ok}
    IN IF hits = {} THEN NoMatch ELSE YearMatch(s, CHOOSE i \in hits : \A j \in hits : i <= j)

\* the order of characters by code point, for the characters of class tokens
CodePointOrder == <<"0", "1", "2", "3", "4", "5", "6", "7", "8", "9">> \o LatinUpper \o LatinLower
CodePoint(c) == CHOOSE k \in 1..Len(CodePointOrder) : CodePointOrder[k] = c
\* a < b for str
StrLess(a, b) ==
    \/ \E k \in 1..Min(Len(a), Len(b)) :
          /\ \A j \in 1..(k - 1) : a[j] = b[j]
          /\ CodePoint(a[k]) < CodePoint(b[k])
    \/ Len(a) < Len(b) /\ \A j \in 1..Len(a) : a[j] = b[j]
\* the set listed from the greatest str to the least
RECURSIVE SortedDescending(_)
SortedDescending(S) ==
    IF S = {} THEN <<>>
    ELSE LET greatest == CHOOSE x \in S : \A y \in S \ {x} : StrLess(y, x)
         IN <<greatest>> \o SortedDescending(S \ {greatest})
\* sorted(S) for a set of str
RECURSIVE Sorted(_)
Sorted(S) ==
    IF S = {} THEN <<>>
    ELSE LET least == CHOOSE x \in S : \A y \in S \ {x} : StrLess(x, y)
         IN <<least>> \o Sorted(S \ {least})

\* re.sub(r"\s+", "", s)
RemoveWS(s) == SelectSeq(s, LAMBDA ch : ch \notin Whitespace)

\* "\n".join(line.rstrip() for line in text.splitlines() if line.strip())
Cleaned(t) ==
    LET kept == SelectSeq(SplitLines(t), LAMBDA ln : Strip(ln) # <<>>)
    IN Join([k \in 1..Len(kept) |-> RStrip(kept[k])], <<"\n">>)

\* the year of the clock, whatever the text holds
DocumentYearOfClock(t, now) == now
\* int(YEAR_RE.search(text).group(1)) if YEAR_RE.search(text) else date.today().year
DocumentYear(t, now) == IF YearSearch(t).ok THEN StrToInt(YearSearch(t).group) ELSE now

\* the fallback without the placeholder
FallbackTextNoPlaceholder(cleaned) == Take(Join(SplitWS(cleaned), <<" ">>), FallbackMax)
\* " ".join(cleaned.split())[:500] or the placeholder
FallbackText(cleaned) == OrElse(Take(Join(SplitWS(cleaned), <<" ">>), FallbackMax), S_no_week_info)

\* int(m.group("week_no"))
WeekNo(m) == StrToInt(m.week_no)

\* the WeekInfo of the idx-th match (0-based) of the cleaned text
WeekOfMatch(cleaned, matches, i, year) ==
    LET m == matches[i + 1]
        block_end == IF i + 1 < Len(matches) THEN matches[i + 2].start ELSE Len(cleaned)
        block == Strip(SubSeq(cleaned, m.start + 1, block_end))
        details == Join(SplitWS(block), <<" ">>)
        found == ClassFindAll(block)
        events == Sorted({found[k].group : k \in 1..Len(found)})
    IN WeekInfo(WeekNo(m), RemoveWS(m.date_range), events,
                Take(details, DetailsMax), Take(block, RawTextMax), year)

\* parse_weeks_from_text listing the weeks from the last header to the first
parse_weeks_reversed(t, now) ==
    LET cleaned == Cleaned(t)
        matches == WeekFindIter(cleaned)
        year == DocumentYear(t, now)
        fallback == FallbackText(cleaned)
    IN IF Len(matches) > 0
       THEN [i \in 1..Len(matches) |-> WeekOfMatch(cleaned, matches, Len(matches) - i, year)]
       ELSE <<WeekInfo(1, S_NA, <<>>, fallback, fallback, year)>>

parse_weeks_from_text(t, now) ==
    LET cleaned == Cleaned(t)
        matches == WeekFindIter(cleaned)
        year == DocumentYear(t, now)
        fallback == FallbackText(cleaned)
    IN IF Len(matches) > 0
       THEN [i \in 1..Len(matches) |-> WeekOfMatch(cleaned, matches, i - 1, year)]
       ELSE <<WeekInfo(1, S_NA, <<>>, fallback, fallback, year)>>

-----------------------------------------------------------------------------
(* Outline map: _clean_outline_title, _looks_like_outline_title and the     *)
(* loop of extract_outline_code_title_map                                   *)

\* the k-th smallest element of a set of numbers
Nth(S, k) == CHOOSE x \in S : Cardinality({y \in S : y <= x}) = k
\* re.sub(r"\s+", " ", s): every whitespace run becomes one space
CollapseWS(s) ==
    LET kept == {k \in 1..Len(s) : s[k] \notin Whitespace \/ k = 1 \/ s[k - 1] \notin Whitespace}
    IN [j \in 1..Cardinality(kept) |->
           IF s[Nth(kept, j)] \in Whitespace THEN " " ELSE s[Nth(kept, j)]]

\* re.sub(r"\s+\d{1,3}$", "", t): a whitespace run and one to three digits at
\* the very end are cut; the leftmost start of such a tail is where the
\* whitespace run before the digits begins
TrailingNumberStart(t) ==
    LET tails == {i \in 0..(Len(t) - 1) :
                     /\ At(t, i) \in Whitespace
                     /\ LET d == SkipWS(t, i)
                        IN /\ Len(t) - d >= 1 /\ Len(t) - d <= 3
                           /\ \A k \in d..(Len(t) - 1) : At(t, k) \in Digits}
    IN IF tails = {} THEN Len(t) ELSE CHOOSE i \in tails : \A j \in tails : i <= j

_clean_outline_title(txt) ==
    LET t == StripChars(CollapseWS(txt), {" ", "-", "|", ":", "\t"})
    IN Strip(SubSeq(t, 1, TrailingNumberStart(t)))

\* re.search(r"\b\d{1,2}[./-]\d{1,2}\b", t)
HasMonthDayWord(t) ==
    \E i \in 0..Len(t) :
        LET md == MonthDayMatch(t, i)
        IN md.ok /\ WordBoundary(t, i) /\ WordBoundary(t, md.end)
\* re.search(r"\b\d+ju\b", t): a whole run of digits, the week marker, a boundary
HasWeekWord(t) ==
    \E i \in 0..Len(t) : \E j \in (i + 1)..Len(t) :
        /\ WordBoundary(t, i)
        /\ \A k \in i..(j - 1) : At(t, k) \in Digits
        /\ At(t, j) = "ju"
        /\ WordBoundary(t, j + 1)

_looks_like_outline_title(t) ==
    /\ t # <<>>
    /\ ~HasMonthDayWord(t)
    /\ ~HasWeekWord(t)
    /\ \E k \in 1..Len(t) : t[k] \in Latin \cup Hangul
    /\ Len(t) >= 2

\* lines = [ln.strip() for ln in text.replace("\r", "\n").split("\n")]
OutlineLines(t) ==
    LET parts == SplitChar([k \in 1..Len(t) |-> IF t[k] = "\r" THEN "\n" ELSE t[k]], "\n", -1)
    IN [k \in 1..Len(parts) |-> Strip(parts[k])]

\* TitleSlice with end = len(line) for every match, not only the last
TitleSliceToLineEnd(line, code_matches, i) ==
    SubSeq(line, code_matches[i + 1].end + 1, Len(line))

\* line[start:end] of the i-th code match (0-based) of a line: from the end of
\* the match to the start of the next match, or to the end of the line
TitleSlice(line, code_matches, i) ==
    SubSeq(line, code_matches[i + 1].end + 1,
           IF i + 1 < Len(code_matches) THEN code_matches[i + 2].start ELSE Len(line))

\* raw_title of the i-th code match of line idx (both 0-based), with the
\* fallback to the next line when nothing follows the code on its own line
RawTitle(ls, i_line, i) ==
    LET line == ls[i_line + 1]
        own == _clean_outline_title(TitleSlice(line, SubsectionCodeFindIter(line), i))
        next_line == IF i_line + 1 < Len(ls) THEN Strip(ls[i_line + 2]) ELSE <<>>
    IN IF own = <<>> /\ next_line # <<>> /\ SubsectionCodeFindIter(next_line) = <<>>
       THEN _clean_outline_title(next_line)
       ELSE own

\* MapStep without "and code not in mapping": the last accepted title stays
MapStepOverwrite(m, code, raw_title) ==
    IF _looks_like_outline_title(raw_title)
    THEN [c \in DOMAIN m \cup {code} |-> IF c = code THEN raw_title ELSE m[c]]
    ELSE m

\* if _looks_like_outline_title(raw_title) and code not in mapping:
\*     mapping[code] = raw_title
MapStep(m, code, raw_title) ==
    IF _looks_like_outline_title(raw_title) /\ code \notin DOMAIN m
    THEN [c \in DOMAIN m \cup {code} |-> IF c = code THEN raw_title ELSE m[c]]
    ELSE m

-----------------------------------------------------------------------------
(* Topic / objective suggestion                                             *)

BriefMax == 60

\* " gwallyeon haeksim gaenyeomeul ihaehago hwaldongeuro jeogyonghanda."
S_objective_tail ==
    <<" ", "haek", "sim", " ", "gae", "nyeom", "eul", " ", "i", "hae", "ha", "go", " ",
      "hwal", "dong", "eu", "ro", " ", "jeok", "yong", "han", "da", ".">>
S_related == <<" ", "gwan", "ryeon">>
S_based_on == <<"reul", " ", "ba", "tang", "eu", "ro">>
\* "haeksim danwon"
S_core_unit == <<"haek", "sim", " ", "dan", "won">>

\* the names bound at module level of lessonplan_bot.py
ModuleGlobals ==
    {"re", "asdict", "dataclass", "date", "datetime", "timedelta", "Path", "Dict", "List",
     "Optional", "WeekInfo", "WEEK_RE", "CLASS_RE", "SUBSECTION_CODE_RE", "YEAR_RE",
     "HOLIDAY_RE", "DATE_DAY_RE", "DAY_ONLY_RE", "WEEKDAY_TOKEN_RE", "WEEKDAY_MAP",
     "_extract_pdf_text", "_clean_outline_title", "_looks_like_outline_title",
     "extract_outline_code_title_map", "extract_week_subsection_codes",
     "parse_weeks_from_text", "parse_syllabus_pdf", "infer_lesson_datetime",
     "infer_class_dates_from_week", "suggest_topic_objective",
     "suggest_topic_objective_from_syllabus", "generate_lesson_table_rows_text",
     "normalize_table_rows", "parse_table_rows_text"}
\* the value a module-level name is bound to
GlobalValue == [n \in ModuleGlobals |-> n]

\* suggest_topic_objective binds curriculum_rows, week_no and class_norm
\* (lines 229-231); line 233 then reads dr, and the lines after it year and
\* raw, names the function never assigns: they are looked up at module level.
\* The rest of the body is lines 187-225 of infer_class_dates_from_week again.
suggest_topic_objective(wi, class_name, subject, curriculum_rows, now) ==
    LET rows_or_empty == curriculum_rows
        week_no == wi.week_no
        class_norm == LowerStr(Strip(class_name))
    IN IF "dr" \notin ModuleGlobals THEN Raise("NameError")
       ELSE IF "year" \notin ModuleGlobals \/ "raw" \notin ModuleGlobals THEN Raise("NameError")
       ELSE ClassDatesBody(wi, now, GlobalValue["year"], GlobalValue["raw"], GlobalValue["dr"])

\* {str(k).upper(): str(v) for k, v in outline_map.items()}, the map given as
\* its items in insertion order: of two keys with one upper case the later
\* item stays
UpperKeyLookup(items, code) ==
    LET hits == {k \in 1..Len(items) : UpperStr(items[k][1]) = code}
    IN IF hits = {} THEN code
       ELSE items[CHOOSE k \in hits : \A j \in hits : j <= k][2]

suggest_topic_objective_from_syllabus(wi, subject, outline_items) ==
    LET codes == extract_week_subsection_codes(wi)
        topics == [k \in 1..Len(codes) |-> UpperKeyLookup(outline_items, codes[k])]
        lesson_topic == Join(topics, <<",", " ">>)
        raw == Strip(wi.details)
        brief == IF raw # <<>> THEN Take(raw, BriefMax) ELSE S_core_unit
    IN IF Len(codes) > 0
       THEN Return([lesson_topic |-> lesson_topic,
                    theme_objective |-> lesson_topic \o S_related \o S_objective_tail])
       ELSE Return([lesson_topic |-> subject \o <<" ", "-", " ">> \o brief,
                    theme_objective |-> brief \o S_based_on \o S_objective_tail])

-----------------------------------------------------------------------------
(* Lesson rows: generate_lesson_table_rows_text, parse_table_rows_text,     *)
(* normalize_table_rows                                                     *)

DetailsSeedMax == 100

generate_lesson_table_rows_text(wi, class_plan_note, include_prayer) ==
    LET intro == IF include_prayer THEN S_intro_prayer ELSE S_intro_plain
        develop_seed == Take(OrElse(Get(wi, "details", None), S_develop_default), DetailsSeedMax)
        develop == develop_seed \o S_develop_mid \o OrElse(class_plan_note, S_note_default)
    IN S_doip \o <<"|">> \o S_10bun \o <<"|">> \o intro \o <<"|">> \o S_jipjung_yudo \o <<"\n">>
       \o S_jeongae \o <<"|">> \o S_25bun \o <<"|">> \o develop \o <<"|">> \o S_jirui_eungdap \o <<"\n">>
       \o S_jeongni \o <<"|">> \o S_5bun \o <<"|">> \o S_closing \o <<"|">> \o S_mamuri

Row(phase, time, content, remarks) ==
    [phase |-> phase, time |-> time, content |-> content, remarks |-> remarks]

SetContent(repaired, content) ==
    [repaired EXCEPT ![Len(repaired)].content = content]

\* the loop body with the blank test made on the fields as given, before strip()
NormalizeStepBlankAsGiven(repaired, row) ==
    LET phase == Strip(row.phase)
        time == Strip(row.time)
        content == Strip(row.content)
        remarks == Strip(row.remarks)
        addon == Join(NonEmptyOnly(<<phase, time, remarks>>), <<" ", "|", " ">>)
    IN IF row.phase = <<>> /\ row.time = <<>> /\ row.content = <<>> /\ row.remarks = <<>> THEN repaired
       ELSE IF content = <<>> /\ Len(repaired) > 0
            THEN IF addon # <<>>
                 THEN SetContent(repaired, Strip(repaired[Len(repaired)].content \o <<"\n">> \o addon))
                 ELSE repaired
       ELSE Append(repaired, Row(phase, time, content, remarks))

\* one iteration of the loop of normalize_table_rows
NormalizeStep(repaired, row) ==
    LET phase == Strip(row.phase)
        time == Strip(row.time)
        content == Strip(row.content)
        remarks == Strip(row.remarks)
        addon == Join(NonEmptyOnly(<<phase, time, remarks>>), <<" ", "|", " ">>)
    IN IF phase = <<>> /\ time = <<>> /\ content = <<>> /\ remarks = <<>> THEN repaired
       ELSE IF content = <<>> /\ Len(repaired) > 0
            THEN IF addon # <<>>
                 THEN SetContent(repaired, Strip(repaired[Len(repaired)].content \o <<"\n">> \o addon))
                 ELSE repaired
       ELSE Append(repaired, Row(phase, time, content, remarks))

RECURSIVE NormalizeLoop(_, _)
NormalizeLoop(repaired, rest) ==
    IF Len(rest) = 0 THEN repaired
    ELSE NormalizeLoop(NormalizeStep(repaired, rest[1]), Tail(rest))

\* "rows or []": a missing list is the empty list
normalize_table_rows(rs) == NormalizeLoop(<<>>, rs)

\* the loop body with a line taken as a row only from three pipes on
ParseStepThreePipes(acc, raw_line) ==
    LET line == Strip(raw_line)
        split == SplitChar(line, "|", 3)
    IN IF line = <<>> THEN acc
       ELSE IF Len(split) < 4
            THEN IF Len(acc) > 0
                 THEN SetContent(acc, Strip(acc[Len(acc)].content \o <<"\n">> \o line))
                 ELSE Append(acc, Row(<<>>, <<>>, line, <<>>))
       ELSE Append(acc, Row(Strip(split[1]), Strip(split[2]), Strip(split[3]), Strip(split[4])))

\* one iteration of the loop of parse_table_rows_text
ParseStep(acc, raw_line) ==
    LET line == Strip(raw_line)
        split == SplitChar(line, "|", 3)
        parts == [i \in 1..4 |-> IF i <= Len(split) THEN Strip(split[i]) ELSE <<>>]
    IN IF line = <<>> THEN acc
       ELSE IF "|" \notin {line[i] : i \in 1..Len(line)}
            THEN IF Len(acc) > 0
                 THEN SetContent(acc, Strip(acc[Len(acc)].content \o <<"\n">> \o line))
                 ELSE Append(acc, Row(<<>>, <<>>, line, <<>>))
       ELSE Append(acc, Row(parts[1], parts[2], parts[3], parts[4]))

RECURSIVE ParseLoop(_, _)
ParseLoop(acc, rest) ==
    IF Len(rest) = 0 THEN acc
    ELSE ParseLoop(ParseStep(acc, rest[1]), Tail(rest))

parse_table_rows_text(t) ==
    normalize_table_rows(ParseLoop(<<>>, SplitLines(OrElse(t, <<>>))))

-----------------------------------------------------------------------------
(* The lesson-row pipeline as the web app drives it: a draft is generated   *)
(* from the week and the plan note, parsed and normalised for the exports   *)
(* (web_app.py line 325), and normalised once more by the DOCX renderer;    *)
(* rows typed by hand reach normalize_table_rows directly.                  *)

MaxRows == 2
LongLen == 101

\* the details of a week: empty, plain, with pipes, longer than the seed bound
RowsDetails ==
    {<<>>, <<"x">>, <<"|", "x">>, <<"a", "|", "b">>,
     Rep("x", LongLen - 1) \o <<"|", "y", "|", "z">>}
\* the plan note: empty, plain, with pipes, multi-line
RowsNotes ==
    {<<>>, <<"n">>, <<"a", "|", "b">>, <<"a", "|", "b", "|", "c">>, <<"a", "\n", "b">>,
     <<"a", "\n", "b", "|", "c", "|", "d", "|", "e">>, <<"\n", "|">>}
\* a row as a form or a caller hands it over: every field blank or not
RowsInputs ==
    {Row(p, t, c, r) : p \in {<<>>, <<"p">>}, t \in {<<>>, <<"t">>},
                       c \in {<<>>, <<" ">>, <<"c">>}, r \in {<<>>, <<"r">>}}

OutlineIdle == lines = <<>> /\ idx = 0 /\ occ = 0 /\ mapping = <<>>
\* no page session and no earlier call
NoSession == [kind |-> "none"]
SessionIdle == st = NoSession /\ earlier = NoResult

\* Either a draft is about to be generated from a week and a note, or a caller
\* is about to hand a row list of its own to normalize_table_rows.
InitRows ==
    /\ text = <<>>
    /\ today = 2026
    /\ result = NoResult
    /\ rows = <<>>
    /\ OutlineIdle
    /\ SessionIdle
    /\ \/ /\ pc = "start"
          /\ week_info \in {WeekInfo(1, S_NA, <<>>, d, d, 2026) : d \in RowsDetails}
          /\ call \in {[class_plan_note |-> n, include_prayer |-> b] : n \in RowsNotes, b \in BOOLEAN}
       \/ /\ pc = "rows"
          /\ week_info = WeekInfo(1, S_NA, <<>>, <<>>, <<>>, 2026)
          /\ call = [class_plan_note |-> <<>>, include_prayer |-> FALSE]

\* web_app.py: lb.generate_lesson_table_rows_text(...)
Generate ==
    /\ pc = "start"
    /\ result' = Return(generate_lesson_table_rows_text(week_info, call.class_plan_note, call.include_prayer))
    /\ pc' = "generated"
    /\ UNCHANGED <<text, today, week_info, call, rows, lines, idx, occ, mapping, st, earlier>>

\* parse_table_rows_text(draft_text)
Parse ==
    /\ pc = "generated"
    /\ rows' = parse_table_rows_text(result.value)
    /\ pc' = "parsed"
    /\ UNCHANGED <<text, today, week_info, call, result, lines, idx, occ, mapping, st, earlier>>

\* a caller builds a row list by hand
AddRow ==
    /\ pc = "rows"
    /\ Len(rows) < MaxRows
    /\ \E r \in RowsInputs : rows' = Append(rows, r)
    /\ pc' = "rows"
    /\ UNCHANGED <<text, today, week_info, call, result, lines, idx, occ, mapping, st, earlier>>

\* normalize_table_rows(rows)
Normalize ==
    /\ pc \in {"parsed", "rows"}
    /\ rows' = normalize_table_rows(rows)
    /\ pc' = "normalized"
    /\ UNCHANGED <<text, today, week_info, call, result, lines, idx, occ, mapping, st, earlier>>

\* the rows of the plan table when the plan has none:
\* 도입 10분 "복습 및 동기 유발", 전개 30분 "핵심 개념 및 활동", 정리 10분 "형성평가 및 과제"
DefaultPlanRows ==
    <<Row(S_doip, S_10bun, <<"bok", "seup", " ", "mich", " ", "dong", "gi", " ", "yu", "bal">>, <<>>),
      Row(S_jeongae, <<"3", "0", "bun">>,
          <<"haek", "sim", " ", "gae", "nyeom", " ", "mich", " ", "hwal", "dong">>, <<>>),
      Row(S_jeongni, S_10bun,
          <<"hyeong", "seong", "pyeong", "ga", " ", "mich", " ", "gwa", "je">>, <<>>)>>

\* the document renderer: rows = normalize_table_rows(fields.get("lesson_rows")) or [...]
Render ==
    /\ pc = "normalized"
    /\ rows' = IF normalize_table_rows(rows) = <<>> THEN DefaultPlanRows ELSE normalize_table_rows(rows)
    /\ pc' = "rendered"
    /\ UNCHANGED <<text, today, week_info, call, result, lines, idx, occ, mapping, st, earlier>>

NextRows == Generate \/ Parse \/ AddRow \/ Normalize \/ Render

SpecRows == InitRows /\ [][NextRows]_vars

NonBlank(s) == s # <<>>

\* C3: every row normalize_table_rows returns has a non-empty content field.
C3_NormalizedContentNonEmpty ==
    pc \in {"normalized", "rendered"} => \A i \in 1..Len(rows) : NonBlank(rows[i].content)

\* C4: normalize(parse(generate(week_info, note, True))) is exactly 3 rows, each
\* with non-empty phase, time and content.
C4_RoundTripThreeRows ==
    (pc = "normalized" /\ result.kind = "return" /\ call.include_prayer) =>
        /\ Len(rows) = 3
        /\ \A i \in 1..Len(rows) :
              NonBlank(rows[i].phase) /\ NonBlank(rows[i].time) /\ NonBlank(rows[i].content)

-----------------------------------------------------------------------------
(* Date inference as the web app calls it on a stored week (web_app.py line *)
(* 250), and infer_lesson_datetime called on its own.                        *)

MaxFrags == 2

\* pieces a week's text is made of: weekday runs, explicit date-weekday
\* pairs, the tail of a header's date range, holiday keywords, plain text
DateFrags ==
    {<<"hwa", "/", "mok">>, <<"mok", " ", "/", " ", "geum">>, <<"geum", "/", "to">>,
     <<"2", ".", "2", "4", "(", "hwa", ")">>, <<"2", ".", "2", "7", " ">>, <<"x">>, S_gonghyuil}

RECURSIVE FragTexts(_, _)
FragTexts(frags, n) ==
    IF n = 0 THEN {<<>>}
    ELSE LET prev == FragTexts(frags, n - 1) IN prev \cup {t \o f : t \in prev, f \in frags}

Str_2_23_2_27 == <<"2", ".", "2", "3", "-", "2", ".", "2", "7">>
\* date ranges the week header pattern lets through, and unparsable ones
DateRanges ==
    {Str_2_23_2_27,
     <<"2", ".", "2", "3", "-", "2", ".", "2", "4">>,
     <<"1", "2", ".", "2", "9", "-", "1", ".", "2">>,
     <<"2", "/", "2", "8", "~", "2", "/", "2", "8">>,
     <<"2", ".", "2", "8", "-", "2", ".", "2", "9">>,
     <<"3", ".", "1", "-", "2", ".", "2", "9">>,
     <<"2", ".", "3", "0", "-", "3", ".", "1">>,
     <<"1", "3", ".", "1", "-", "1", "3", ".", "5">>,
     <<"0", ".", "0", "-", "0", ".", "0">>,
     S_NA, <<>>}
\* the year of the record: missing (0), a leap year, a common year
DateYears == {0, 2024, 2026}

InitDates ==
    /\ pc = "start"
    /\ text = <<>>
    /\ today = 2027
    /\ week_info \in {WeekInfo(1, dr, <<>>, d, raw, y) :
                        dr \in DateRanges, d \in {<<>>, S_hyugang},
                        raw \in FragTexts(DateFrags, MaxFrags), y \in DateYears}
    /\ call = <<>>
    /\ result = NoResult
    /\ rows = <<>>
    /\ OutlineIdle
    /\ SessionIdle

\* auto_datetime = infer_class_dates_from_week(week_info)
InferClassDates ==
    /\ pc = "start"
    /\ result' = infer_class_dates_from_week(week_info, today)
    /\ pc' = "class_dates"
    /\ UNCHANGED <<text, today, week_info, call, rows, lines, idx, occ, mapping, st, earlier>>

\* infer_lesson_datetime(week_info)
InferLessonDatetime ==
    /\ pc = "start"
    /\ result' = infer_lesson_datetime(week_info, today)
    /\ pc' = "lesson_datetime"
    /\ UNCHANGED <<text, today, week_info, call, rows, lines, idx, occ, mapping, st, earlier>>

NextDates == InferClassDates \/ InferLessonDatetime

SpecDates == InitDates /\ [][NextDates]_vars

\* the dates from start to end that fall on one of the weekdays in days;
\* dates are compared by year, month and day
MonthKey(y, m) == y * 12 + m
DateKey(d) == MonthKey(d.year, d.month) * 31 + d.day
DatesBetween(start, end, days) ==
    LET lo == DateKey(start)
        hi == DateKey(end)
        months == {ym \in (start.year..end.year) \X (1..12) :
                      /\ MonthKey(ym[1], ym[2]) >= MonthKey(start.year, start.month)
                      /\ MonthKey(ym[1], ym[2]) <= MonthKey(end.year, end.month)}
    IN {d \in {Date(ym[1], ym[2], dd) : ym \in months, dd \in 1..31} :
           /\ DateKey(d) >= lo /\ DateKey(d) <= hi
           /\ ValidDate(d.year, d.month, d.day)
           /\ WeekdayOf(d) \in days}
RECURSIVE Ascending(_)
Ascending(S) ==
    IF S = {} THEN <<>>
    ELSE LET first == CHOOSE d \in S : \A e \in S : ToOrdinal(d) <= ToOrdinal(e)
         IN <<first>> \o Ascending(S \ {first})
LabelOf(dates) == Join([k \in 1..Len(dates) |-> DateLabel(dates[k])], <<",", " ">>)
\* the label without the holiday suffix
DatesPart(label) ==
    IF EndsWith(label, S_holiday_suffix) THEN SubSeq(label, 1, Len(label) - Len(S_holiday_suffix))
    ELSE label

C5_Tokens == MonthDayFindAll(week_info.date_range)
C5_Year == YearOf(week_info, today)
C5_Start == Date(C5_Year, StrToInt(C5_Tokens[1].mm), StrToInt(C5_Tokens[1].dd))
C5_EndSameYear == Date(C5_Year, StrToInt(C5_Tokens[2].mm), StrToInt(C5_Tokens[2].dd))
C5_Rolled == ToOrdinal(C5_EndSameYear) < ToOrdinal(C5_Start)
C5_End == IF C5_Rolled THEN [C5_EndSameYear EXCEPT !.year = C5_Year + 1] ELSE C5_EndSameYear
C5_Named == {WEEKDAY_MAP(t) : t \in WeekdayTokens(RawOf(week_info))}
\* the case of the claim: the range is two month.day tokens that name dates,
\* the text has a weekday run and no explicit date-weekday pair
C5_Case ==
    /\ pc = "class_dates"
    /\ Len(C5_Tokens) >= 2
    /\ ValidDate(C5_Start.year, C5_Start.month, C5_Start.day)
    /\ ValidDate(C5_EndSameYear.year, C5_EndSameYear.month, C5_EndSameYear.day)
    /\ C5_Named # {}
    /\ DateDayFindAll(RawOf(week_info)) = <<>>

\* C5 as stated: the result is exactly the dates of the week's year from start
\* to end that fall on a named weekday, ascending, each labelled M.D(weekday).
C5_AsStated ==
    C5_Case =>
        /\ result.kind = "return"
        /\ DatesPart(result.value) =
              LabelOf(Ascending({d \in DatesBetween(C5_Start, C5_End, C5_Named) :
                                    d.year = C5_Year}))

\* C5_Case and the claim, given the start, the end in the start's year, the
\* end and the named weekdays
C5_Checked(start, end_same, end, named) ==
    (/\ ValidDate(start.year, start.month, start.day)
     /\ ValidDate(end_same.year, end_same.month, end_same.day)
     /\ named # {}
     /\ DateDayFindAll(RawOf(week_info)) = <<>>
     /\ ValidDate(end.year, end.month, end.day)) =>
        LET hits == Ascending(DatesBetween(start, end, named))
        IN /\ result.kind = "return"
           /\ DatesPart(result.value) =
                 LabelOf(IF hits # <<>> THEN hits
                         ELSE IF start # end THEN <<start, end>> ELSE <<start>>)

\* C5 as amended: an end earlier than the start is taken in the following year;
\* the result is the dates from start to end that fall on a named weekday,
\* ascending, each labelled M.D(weekday), or the start and end dates (the start
\* alone when they coincide) when no date of the range falls on a named weekday.
C5_WeekdayFilteredDates ==
    (pc = "class_dates" /\ Len(C5_Tokens) >= 2) => C5_Checked(C5_Start, C5_EndSameYear, C5_End, C5_Named)

\* 2.23-2.27 of 2026 with the run hwa/mok gives the Tuesday and the Thursday
C5_Witness ==
    /\ C5_Case
    /\ week_info.date_range = Str_2_23_2_27
    /\ C5_Year = 2026
    /\ result = Return(<<"2", ".", "2", "4", "(", "hwa", ")", ",", " ", "2", ".", "2", "6", "(", "mok", ")">>)

C8_Keywords ==
    {<<"hyu", "gang">>, <<"gong", "hyu", "il">>, <<"dae", "che", "hyu", "il">>,
     <<"haeng", "sa">>, <<"si", "heom">>}
C8_Marked(s) == \E w \in C8_Keywords : \E i \in 0..Len(s) : OccursAt(s, w, i)

\* C8: a returned label ends with the holiday suffix exactly when raw_text or
\* details holds a holiday keyword, in every branch of the inference.
C8_HolidaySuffix ==
    (pc \in {"class_dates", "lesson_datetime"} /\ result.kind = "return") =>
        (EndsWith(result.value, S_holiday_suffix)
            <=> (C8_Marked(week_info.raw_text) \/ C8_Marked(week_info.details)))

\* the weekday-filtered branch on a week whose text holds "gonghyuil"
C8_Witness ==
    /\ C5_Case
    /\ Contains(week_info.raw_text, <<"gong", "hyu", "il">>)
    /\ result.kind = "return"
    /\ EndsWith(result.value, S_holiday_suffix)
    /\ Len(result.value) > Len(S_holiday_suffix)

-----------------------------------------------------------------------------
(* Topic / objective suggestion for a stored week: the web app calls        *)
(* suggest_topic_objective_from_syllabus (web_app.py line 252);             *)
(* suggest_topic_objective is the variant that takes curriculum rows.       *)

CurriculumRow(week_no, class_name, topic, objective) ==
    [week_no |-> week_no, class_name |-> class_name, topic |-> topic, objective |-> objective]

SuggestCurriculumRows ==
    {CurriculumRow(w, c, <<"T">>, <<"O">>) : w \in {1, 2}, c \in {<<>>, <<"1", "1", "a">>, <<"G", "6">>}}
\* no rows, one row, two rows
SuggestCurricula ==
    {<<>>} \cup {<<r>> : r \in SuggestCurriculumRows}
           \cup {<<r, CurriculumRow(1, <<>>, <<"T", "2">>, <<"O", "2">>)>> : r \in SuggestCurriculumRows}
\* the outline map as its items: empty, one code, one code in lower case, one
\* code in both letter cases
SuggestOutlines ==
    {<<>>, <<<<<<"1", "A">>, <<"bun", "su">>>>>>, <<<<<<"1", "b">>, <<"so", "su">>>>>>,
     <<<<<<"1", "a">>, <<"bun", "su">>>>, <<<<"1", "A">>, <<"so", "su">>>>>>}
SuggestTexts == {<<>>, <<"x">>, <<"1", "A", " ", "x">>, <<"1", "a", " ", "1", "B", " ", "1", "A">>}
SuggestDetails == {<<>>, <<" ", "x", " ">>, Rep("x", LongLen)}

InitSuggest ==
    /\ pc = "start"
    /\ text = <<>>
    /\ today = 2026
    /\ week_info \in {WeekInfo(1, Str_2_23_2_27, <<>>, d, raw, 2026) :
                        d \in SuggestDetails, raw \in SuggestTexts}
    /\ call \in {[class_name |-> c, subject |-> <<"S">>, curriculum_rows |-> rs, outline_map |-> om] :
                    c \in {<<"1", "1", "A">>, <<" ", "G", "6">>},
                    rs \in SuggestCurricula, om \in SuggestOutlines}
    /\ result = NoResult
    /\ rows = <<>>
    /\ OutlineIdle
    /\ SessionIdle

\* suggest_topic_objective(week_info=..., class_name=..., subject=..., curriculum_rows=...)
SuggestTopicObjective ==
    /\ pc = "start"
    /\ result' = suggest_topic_objective(week_info, call.class_name, call.subject,
                                         call.curriculum_rows, today)
    /\ pc' = "suggested"
    /\ UNCHANGED <<text, today, week_info, call, rows, lines, idx, occ, mapping, st, earlier>>

\* suggest_topic_objective_from_syllabus(week_info=..., subject=..., outline_map=...)
SuggestFromSyllabus ==
    /\ pc = "start"
    /\ result' = suggest_topic_objective_from_syllabus(week_info, call.subject, call.outline_map)
    /\ pc' = "suggested_from_syllabus"
    /\ UNCHANGED <<text, today, week_info, call, rows, lines, idx, occ, mapping, st, earlier>>

NextSuggest == SuggestTopicObjective \/ SuggestFromSyllabus

SpecSuggest == InitSuggest /\ [][NextSuggest]_vars

\* the curriculum rows that match the week and the requested class
C1_Matching ==
    {k \in 1..Len(call.curriculum_rows) :
        /\ call.curriculum_rows[k].week_no = week_info.week_no
        /\ \/ call.curriculum_rows[k].class_name = <<>>
           \/ LowerStr(call.curriculum_rows[k].class_name) = LowerStr(Strip(call.class_name))}

\* C1: with a matching curriculum row, suggest_topic_objective returns that
\* row's topic and objective verbatim, whatever codes the week's text holds.
C1_CurriculumRowWins ==
    (pc = "suggested" /\ C1_Matching # {}) =>
        /\ result.kind = "return"
        /\ \E k \in C1_Matching :
              result.value = [lesson_topic |-> call.curriculum_rows[k].topic,
                              theme_objective |-> call.curriculum_rows[k].objective]

C2_IsSuggestion(v) ==
    /\ DOMAIN v = {"lesson_topic", "theme_objective"}
    /\ v.lesson_topic \in Seq(WordChars \cup Whitespace \cup {",", "-", ".", "|"})
    /\ v.theme_objective \in Seq(WordChars \cup Whitespace \cup {",", "-", ".", "|"})
C2_Brief == IF Strip(week_info.details) # <<>> THEN Take(Strip(week_info.details), BriefMax) ELSE S_core_unit

\* C2: both suggestion functions return, without raising, a mapping with a
\* topic string and an objective string; with no curriculum row and no code
\* the result is the template text built from the subject and the details.
C2_SuggestionTotal ==
    (pc \in {"suggested", "suggested_from_syllabus"}) =>
        /\ result.kind = "return"
        /\ C2_IsSuggestion(result.value)
        /\ (C1_Matching = {} \/ pc = "suggested_from_syllabus") /\ extract_week_subsection_codes(week_info) = <<>>
              => result.value = [lesson_topic |-> call.subject \o <<" ", "-", " ">> \o C2_Brief,
                                 theme_objective |-> C2_Brief \o S_based_on \o S_objective_tail]

-----------------------------------------------------------------------------
(* extract_outline_code_title_map, one step per line skipped and per code   *)
(* occurrence processed                                                     *)

MaxOutlineFrags == 4

\* codes in both letter cases, titles (one ending in a page number), a
\* one-character candidate, a date, a line break
OutlineFrags ==
    {<<"1", "A", " ">>, <<"1", "a", " ">>, <<"1", "B", " ">>,
     <<"bun", "su", "ui", " ", "i", "hae", " ">>, <<"so", "su", "ui", " ", "i", "hae", " ", "1", "2", " ">>,
     <<"ga", " ">>, <<"3", ".", "5", " ">>, <<"\n">>}
\* "1A bunsuui ihae 1B sosuui ihae"
OutlineExample ==
    <<"1", "A", " ", "bun", "su", "ui", " ", "i", "hae", " ",
      "1", "B", " ", "so", "su", "ui", " ", "i", "hae">>

InitOutline ==
    /\ pc = "start"
    /\ text \in FragTexts(OutlineFrags, MaxOutlineFrags) \cup {OutlineExample}
    /\ today = 2026
    /\ week_info = WeekInfo(1, S_NA, <<>>, <<>>, <<>>, 2026)
    /\ call = <<>>
    /\ result = NoResult
    /\ rows = <<>>
    /\ OutlineIdle
    /\ SessionIdle

\* mapping = {}; lines = [...]
OutlineBegin ==
    /\ pc = "start"
    /\ lines' = OutlineLines(text)
    /\ idx' = 0 /\ occ' = 0 /\ mapping' = <<>>
    /\ pc' = "lines"
    /\ UNCHANGED <<text, today, week_info, call, result, rows, st, earlier>>

\* if not line: continue / if not code_matches: continue
OutlineSkipLine ==
    /\ pc = "lines"
    /\ idx < Len(lines)
    /\ SubsectionCodeFindIter(lines[idx + 1]) = <<>>
    /\ idx' = idx + 1
    /\ UNCHANGED <<pc, text, today, week_info, call, result, rows, lines, occ, mapping, st, earlier>>

\* one iteration of "for i, match in enumerate(code_matches)"
OutlineCode ==
    /\ pc = "lines"
    /\ idx < Len(lines)
    /\ LET code_matches == SubsectionCodeFindIter(lines[idx + 1])
       IN /\ occ < Len(code_matches)
          /\ mapping' = MapStep(mapping, UpperStr(code_matches[occ + 1].code), RawTitle(lines, idx, occ))
          /\ IF occ + 1 < Len(code_matches)
             THEN occ' = occ + 1 /\ idx' = idx
             ELSE occ' = 0 /\ idx' = idx + 1
    /\ UNCHANGED <<pc, text, today, week_info, call, result, rows, lines, st, earlier>>

\* return mapping
OutlineReturn ==
    /\ pc = "lines"
    /\ idx = Len(lines)
    /\ result' = Return(mapping)
    /\ pc' = "mapped"
    /\ UNCHANGED <<text, today, week_info, call, rows, lines, idx, occ, mapping, st, earlier>>

NextOutline == OutlineBegin \/ OutlineSkipLine \/ OutlineCode \/ OutlineReturn

SpecOutline == InitOutline /\ [][NextOutline]_vars

\* the one line of the text, its code occurrences, and the text between the
\* k-th code and the next code (or the end of the line)
C9_Line == Strip(text)
C9_Codes == SubsectionCodeFindIter(C9_Line)
C9_Between(k) ==
    LET from == C9_Codes[k].end
        to == IF k < Len(C9_Codes) THEN C9_Codes[k + 1].start ELSE Len(C9_Line)
    IN [j \in 1..(to - from) |-> C9_Line[from + j]]
\* a single line of distinct codes, each followed by a title
C9_Case ==
    /\ pc = "mapped"
    /\ \A k \in 1..Len(text) : text[k] \notin LineBreaks
    /\ Len(C9_Codes) >= 1
    /\ \A j, k \in 1..Len(C9_Codes) : j # k => UpperStr(C9_Codes[j].code) # UpperStr(C9_Codes[k].code)
    /\ \A k \in 1..Len(C9_Codes) : _looks_like_outline_title(_clean_outline_title(C9_Between(k)))

\* C9: on such a line every code, uppercased, is mapped to the cleaned text
\* between it and the next code (the end of the line for the last code), and
\* nothing else is mapped.
C9_CodeToTitleBetween ==
    C9_Case =>
        /\ result.kind = "return"
        /\ DOMAIN result.value = {UpperStr(C9_Codes[k].code) : k \in 1..Len(C9_Codes)}
        /\ \A k \in 1..Len(C9_Codes) :
              result.value[UpperStr(C9_Codes[k].code)] = _clean_outline_title(C9_Between(k))

\* "1A bunsuui ihae 1B sosuui ihae" gives {"1A": "bunsuui ihae", "1B": "sosuui ihae"}
C9_Witness ==
    /\ C9_Case
    /\ text = OutlineExample
    /\ DOMAIN result.value = {<<"1", "A">>, <<"1", "B">>}
    /\ result.value[<<"1", "A">>] = <<"bun", "su", "ui", " ", "i", "hae">>
    /\ result.value[<<"1", "B">>] = <<"so", "su", "ui", " ", "i", "hae">>

\* the code occurrences of the text as (line, match) positions, 0-based, with
\* the code as written, and those of them whose candidate title is accepted
C10_Occurrences ==
    UNION {{<<l, i>> : i \in 0..(Len(SubsectionCodeFindIter(lines[l + 1])) - 1)} : l \in 0..(Len(lines) - 1)}
C10_CodeAt(p) == SubsectionCodeFindIter(lines[p[1] + 1])[p[2] + 1].code
C10_Accepted(c) ==
    {p \in C10_Occurrences :
        UpperStr(C10_CodeAt(p)) = c /\ _looks_like_outline_title(RawTitle(lines, p[1], p[2]))}
C10_Before(p, q) == p[1] < q[1] \/ (p[1] = q[1] /\ p[2] <= q[2])
\* a step never changes or removes an entry of the mapping
C10_EntryKept == \A c \in DOMAIN mapping : c \in DOMAIN mapping' /\ mapping'[c] = mapping[c]
\* the returned mapping: the codes with an accepted occurrence, uppercase,
\* each with the title of its first accepted occurrence
C10_Final ==
    pc = "mapped" =>
        /\ DOMAIN mapping = {UpperStr(C10_CodeAt(p)) : p \in {q \in C10_Occurrences : C10_Accepted(UpperStr(C10_CodeAt(q))) # {}}}
        /\ \A c \in DOMAIN mapping :
              /\ c = UpperStr(c)
              /\ \E p \in C10_Accepted(c) :
                    /\ \A q \in C10_Accepted(c) : C10_Before(p, q)
                    /\ mapping[c] = RawTitle(lines, p[1], p[2])

\* C10: once a code has a title no later occurrence changes or removes it, a
\* rejected occurrence does not block a later accepted one, and the final
\* title of each code is that of its first accepted occurrence.
C10_FirstAcceptedWins == [][C10_EntryKept]_vars /\ []C10_Final

\* a code mapped from its first occurrence although a later occurrence, in the
\* other letter case, was accepted with another title
C10_Witness ==
    /\ pc = "mapped"
    /\ \E c \in DOMAIN mapping : \E p \in C10_Accepted(c) :
          /\ RawTitle(lines, p[1], p[2]) # mapping[c]
          /\ C10_CodeAt(p) # c

-----------------------------------------------------------------------------
(* parse_weeks_from_text on syllabus texts                                  *)

MaxWeekFrags == 3

\* week headers numbered 1, 0 and 00 (with "-", " ~ " and "/" in the range),
\* a header whose range starts on the 30th of February,
\* a tail with weekday and class tokens, line breaks, a blank, a year, a word
WeekFrags ==
    {<<"1", "ju", " ", "2", ".", "2", "3", "-", "2", ".", "2", "7">>,
     <<"0", "ju", " ", "3", ".", "2", " ", "~", " ", "3", ".", "6">>,
     <<"0", "0", "ju", "3", "/", "9", "-", "3", "/", "1", "3">>,
     <<"2", "ju", " ", "2", ".", "3", "0", "-", "3", ".", "5">>,
     <<" ", "hwa", "/", "mok", " ", "G", "6", " ", "1", "1", "A">>,
     <<"\n">>, <<"\r">>, <<" ">>, <<"2", "0", "2", "5">>, <<"x">>}
\* a text without a header whose collapsed form is longer than the fallback
\* bound, and a week block longer than the details bound
LongPlainText == [i \in 1..(FallbackMax + 100) |-> IF i % 10 \in {0, 1} THEN " " ELSE "x"]
LongWeekText ==
    <<"1", "ju", " ", "2", ".", "2", "3", "-", "2", ".", "2", "7", " ">>
        \o [i \in 1..(DetailsMax + 10) |-> IF i % 10 \in {0, 1} THEN " " ELSE "x"]

InitWeeks ==
    /\ pc = "start"
    /\ text \in FragTexts(WeekFrags, MaxWeekFrags) \cup {LongPlainText, LongWeekText}
    /\ today = 2026
    /\ week_info = WeekInfo(1, S_NA, <<>>, <<>>, <<>>, 2026)
    /\ call = <<>>
    /\ result = NoResult
    /\ rows = <<>>
    /\ OutlineIdle
    /\ SessionIdle

\* weeks = parse_weeks_from_text(text)
ParseWeeks ==
    /\ pc = "start"
    /\ result' = Return(parse_weeks_from_text(text, today))
    /\ pc' = "weeks"
    /\ UNCHANGED <<text, today, week_info, call, rows, lines, idx, occ, mapping, st, earlier>>

\* week = weeks[k]: the week the page works on
SelectWeek ==
    /\ pc = "weeks"
    /\ \E k \in 1..Len(result.value) : week_info' = result.value[k]
    /\ pc' = "week"
    /\ UNCHANGED <<text, today, call, result, rows, lines, idx, occ, mapping, st, earlier>>

\* auto_datetime = infer_class_dates_from_week(week_info), on the selected week
InferSelectedWeek ==
    /\ pc = "week"
    /\ result' = infer_class_dates_from_week(week_info, today)
    /\ pc' = "week_dates"
    /\ UNCHANGED <<text, today, week_info, call, rows, lines, idx, occ, mapping, st, earlier>>

NextWeeks == ParseWeeks \/ SelectWeek \/ InferSelectedWeek

SpecWeeks == InitWeeks /\ [][NextWeeks]_vars

\* the input collapsed: its words joined by single blanks
C6_Collapsed == Join(SplitWS(text), <<" ">>)
\* the text parsed, none of its lines starting a week header
C6_Case == pc = "weeks" /\ WeekFindIter(Cleaned(text)) = <<>>
C6_Expected == IF C6_Collapsed = <<>> THEN S_no_week_info ELSE Take(C6_Collapsed, FallbackMax)

\* C6: a text without a week header gives exactly one week, numbered 1, with
\* date range "N/A", no events, and details and raw_text both the collapsed
\* input cut at the fallback bound, or the placeholder when that is empty;
\* details is never null or empty.
C6_SingleFallbackWeek ==
    C6_Case =>
        /\ result.kind = "return"
        /\ Len(result.value) = 1
        /\ result.value[1].week_no = 1
        /\ result.value[1].date_range = S_NA
        /\ result.value[1].events = <<>>
        /\ result.value[1].details = C6_Expected
        /\ result.value[1].raw_text = C6_Expected
        /\ result.value[1].details \notin {None, <<>>}

\* a text without a header, longer than the bound once collapsed, cut at the bound
C6_Witness ==
    /\ C6_Case
    /\ Len(C6_Collapsed) > FallbackMax
    /\ Len(result.value) = 1
    /\ Len(result.value[1].details) = FallbackMax
    /\ result.value[1].details # C6_Collapsed

\* C7: every week parse_weeks_from_text returns has a week_no of at least 1,
\* also when the header carries the number 0 or 00.
C7_WeekNoPositive ==
    pc = "weeks" => \A k \in 1..Len(result.value) : result.value[k].week_no >= 1

-----------------------------------------------------------------------------
(* parse_table_rows_text on a draft as the user left it in the text area    *)

MaxParseFrags == 5

\* plain text, a pipe, a line break, indented text, a full four-field row
ParseFrags ==
    {<<"a">>, <<"|">>, <<"\n">>, <<" ", "b">>, <<"p", "|", "t", "|", "c", "|", "r">>}

\* draft_text: the content of the text area (11)
InitParse ==
    /\ pc = "generated"
    /\ result \in {Return(t) : t \in FragTexts(ParseFrags, MaxParseFrags)}
    /\ text = <<>>
    /\ today = 2026
    /\ week_info = WeekInfo(1, S_NA, <<>>, <<>>, <<>>, 2026)
    /\ call = [class_plan_note |-> <<>>, include_prayer |-> FALSE]
    /\ rows = <<>>
    /\ OutlineIdle
    /\ SessionIdle

NextParse == Parse \/ Normalize \/ Render

SpecParse == InitParse /\ [][NextParse]_vars

\* the number of pipes of a line, and the line cut at its first three pipes
\* into four stripped fields, the missing ones empty
C11_Pipes(line) == Cardinality({i \in 1..Len(line) : line[i] = "|"})
C11_Field(line, k) ==
    LET cuts == {i \in 1..Len(line) : line[i] = "|" /\ C11_Pipes(SubSeq(line, 1, i)) <= 3}
        from == IF k = 1 THEN 0 ELSE IF \E i \in cuts : C11_Pipes(SubSeq(line, 1, i)) = k - 1
                                     THEN CHOOSE i \in cuts : C11_Pipes(SubSeq(line, 1, i)) = k - 1
                                     ELSE Len(line) + 1
        to == IF k <= 3 /\ \E i \in cuts : C11_Pipes(SubSeq(line, 1, i)) = k
              THEN (CHOOSE i \in cuts : C11_Pipes(SubSeq(line, 1, i)) = k) - 1
              ELSE Len(line)
    IN Strip(SubSeq(line, from + 1, to))
\* the rows read from the first n lines, a line being a row of its own when
\* it has at least least pipes
RECURSIVE C11_RowsOf(_, _, _)
C11_RowsOf(ls, n, least) ==
    IF n = 0 THEN <<>>
    ELSE LET before == C11_RowsOf(ls, n - 1, least)
             line == Strip(ls[n])
         IN IF line = <<>> THEN before
            ELSE IF C11_Pipes(line) >= least
                 THEN Append(before, Row(C11_Field(line, 1), C11_Field(line, 2),
                                         C11_Field(line, 3), C11_Field(line, 4)))
            ELSE IF before = <<>> THEN <<Row(<<>>, <<>>, line, <<>>)>>
            ELSE [before EXCEPT ![Len(before)].content = Strip(@ \o <<"\n">> \o line)]
C11_Lines == SplitLines(result.value)

\* C11 as stated: a line is a row only from three pipes on; a line with
\* fewer is a continuation
C11_AsStated ==
    pc = "parsed" => rows = normalize_table_rows(C11_RowsOf(C11_Lines, Len(C11_Lines), 3))

\* C11: parse_table_rows_text takes a non-blank line with at least one pipe
\* as a new row, cut at its first three pipes into four stripped fields, the
\* missing ones empty; a non-blank line without a pipe is appended,
\* newline-joined, to the previous row's content, or is a row of its own with
\* empty phase, time and remarks when there is none; the rows are then
\* normalised.
C11_RowFromOnePipe ==
    pc = "parsed" => rows = normalize_table_rows(C11_RowsOf(C11_Lines, Len(C11_Lines), 1))

\* a draft with a first line without a pipe, a line of one or two pipes and a
\* line of more than three, parsed
C11_Witness ==
    /\ pc = "parsed"
    /\ Len(C11_Lines) >= 2
    /\ C11_Pipes(Strip(C11_Lines[1])) = 0 /\ Strip(C11_Lines[1]) # <<>>
    /\ \E k \in 1..Len(C11_Lines) : C11_Pipes(C11_Lines[k]) \in {1, 2}
    /\ rows # <<>>
    /\ rows[1].phase = <<>>

\* the lines of the generated draft, and the fields of its k-th line
C12_Lines == SplitLines(result.value)
C12_Fields(k) == SplitChar(C12_Lines[k], "|", -1)
C12_Seed == Take(OrElse(week_info.details, S_develop_default), DetailsSeedMax)

\* C12: the generated draft is exactly three lines, for the phases 도입, 전개,
\* 정리 in this order, each of four pipe-delimited fields with the times 10분,
\* 25분, 5분; the content of 도입 depends on include_prayer and the content
\* of 전개 holds the details snippet and the plan note.
C12_ThreeFourFieldLines ==
    pc = "generated" =>
        /\ Len(C12_Lines) = 3
        /\ \A k \in 1..3 : Len(C12_Fields(k)) = 4
        /\ <<C12_Fields(1)[1], C12_Fields(2)[1], C12_Fields(3)[1]>> = <<S_doip, S_jeongae, S_jeongni>>
        /\ <<C12_Fields(1)[2], C12_Fields(2)[2], C12_Fields(3)[2]>> = <<S_10bun, S_25bun, S_5bun>>
        /\ C12_Fields(1)[3] = (IF call.include_prayer THEN S_intro_prayer ELSE S_intro_plain)
        /\ Contains(C12_Fields(2)[3], C12_Seed)
        /\ Contains(C12_Fields(2)[3], OrElse(call.class_plan_note, S_note_default))

\* the explicit date-weekday pairs of the week's text, each as
\* YYYY.MM.DD(weekday) with the week's year
C13_Pairs == DateDayFindAll(RawOf(week_info))
C13_Items ==
    [k \in 1..Len(C13_Pairs) |->
        IntToStr(YearOf(week_info, today)) \o <<".">> \o Pad2(StrToInt(C13_Pairs[k].mm)) \o <<".">>
        \o Pad2(StrToInt(C13_Pairs[k].dd)) \o <<"(", C13_Pairs[k].day, ")">>]

\* C13: when the week's text holds explicit date-weekday pairs the label is
\* those pairs, each as YYYY.MM.DD(weekday), without duplicates, in the order
\* of their first occurrence, joined with ", " (the holiday suffix aside),
\* whether or not date_range parses into two month.day tokens.
C13_ExplicitPairsLabel ==
    (pc \in {"class_dates", "lesson_datetime"} /\ C13_Pairs # <<>>) =>
        /\ result.kind = "return"
        /\ DatesPart(result.value) = Join(Dedup(C13_Items), <<",", " ">>)

\* C14: infer_class_dates_from_week returns a label, and does not raise, on
\* every week parse_weeks_from_text produced, whatever month and day numbers
\* the header's date range holds.
C14_InferenceNeverRaises ==
    pc = "week_dates" => result.kind = "return"

\* a week nothing can be inferred from: no date_range, no explicit pair, no
\* weekday run, no holiday keyword
C15_NothingToInfer ==
    /\ week_info.date_range = <<>>
    /\ DateDayFindAll(RawOf(week_info)) = <<>>
    /\ WeekdayTokenFindAll(RawOf(week_info)) = <<>>
    /\ ~C8_Marked(RawOf(week_info))

\* C15: a label infer_class_dates_from_week or infer_lesson_datetime returns
\* is never empty, and is the placeholder "일정 미확인" when nothing can be
\* inferred.
C15_LabelNeverEmpty ==
    (pc \in {"class_dates", "lesson_datetime"} /\ result.kind = "return") =>
        /\ result.value # <<>>
        /\ C15_NothingToInfer => result.value = S_unconfirmed

\* infer_class_dates_from_week on a week without date_range and with plain
\* text: the placeholder
C15_Witness ==
    /\ pc = "class_dates"
    /\ C15_NothingToInfer
    /\ week_info.raw_text = <<"x">>
    /\ result = Return(S_unconfirmed)

\* the week headers of the text, in the order they stand in it
C16_Headers == WeekFindIter(Cleaned(text))

\* C16: parse_weeks_from_text returns, without raising, at least one week;
\* a text with k >= 1 headers gives exactly k weeks, in the order of the
\* headers in the text, each with the number of its header.
C16_OneWeekPerHeader ==
    pc = "weeks" =>
        /\ result.kind = "return"
        /\ Len(result.value) >= 1
        /\ Len(C16_Headers) >= 1 =>
              /\ Len(result.value) = Len(C16_Headers)
              /\ \A k \in 1..Len(C16_Headers) :
                    result.value[k].week_no = StrToInt(C16_Headers[k].week_no)

\* two headers, the larger number first: two weeks in the order of the text
C16_Witness ==
    /\ pc = "weeks"
    /\ Len(C16_Headers) = 2
    /\ Len(result.value) = 2
    /\ result.value[1].week_no > result.value[2].week_no

\* a before b in lexicographic order: a proper prefix of b, or the smaller
\* character at the first position where they differ
C17_Before(a, b) ==
    LET n == Min(Len(a), Len(b))
        same == {k \in 0..n : \A j \in 1..k : a[j] = b[j]}
        common == CHOOSE k \in same : \A j \in same : j <= k
    IN IF common = n THEN Len(a) < Len(b)
       ELSE CodePoint(a[common + 1]) < CodePoint(b[common + 1])

\* C17: the events of every week parse_weeks_from_text returns are in
\* strictly ascending lexicographic order, so no token is there twice.
C17_EventsSortedUnique ==
    pc = "weeks" =>
        \A w \in 1..Len(result.value) :
            \A i, j \in 1..Len(result.value[w].events) :
                i < j => C17_Before(result.value[w].events[i], result.value[w].events[j])

\* a week whose text names G6 before 11A, and both twice: events 11A, G6
C17_Witness ==
    /\ pc = "weeks"
    /\ \E w \in 1..Len(result.value) :
          /\ result.value[w].events = <<<<"1", "1", "A">>, <<"G", "6">>>>
          /\ Len(ClassFindAll(result.value[w].raw_text)) = 4

-----------------------------------------------------------------------------
(* The same call made twice, other calls and a turn of the year in between  *)

MaxPureFrags == 3
MaxClockYear == 2027

S_parse_weeks == "parse_weeks_from_text"
S_infer_class_dates == "infer_class_dates_from_week"

\* a week header, a line break, a year token, a word
PureFrags ==
    {<<"1", "ju", " ", "2", ".", "2", "3", "-", "2", ".", "2", "7">>, <<"\n">>,
     <<"2", "0", "2", "5">>, <<"x">>}
\* weeks with and without a year, a date range, weekday hints, explicit pairs
PureWeeks ==
    {WeekInfo(1, dr, <<>>, <<>>, raw, y) :
        dr \in {Str_2_23_2_27, S_NA},
        raw \in {<<>>, <<"hwa", "/", "mok">>, <<"2", ".", "2", "4", "(", "hwa", ")">>},
        y \in {0, 2026}}

\* the call under observation, made in the year now
PureCall(now) ==
    IF call.function = S_parse_weeks THEN Return(parse_weeks_from_text(text, now))
    ELSE infer_class_dates_from_week(week_info, now)

InitPure ==
    /\ pc = "start"
    /\ today = 2026
    /\ \/ /\ call = [function |-> S_parse_weeks]
          /\ text \in FragTexts(PureFrags, MaxPureFrags)
          /\ week_info = WeekInfo(1, S_NA, <<>>, <<>>, <<>>, 2026)
       \/ /\ call = [function |-> S_infer_class_dates]
          /\ text = <<>>
          /\ week_info \in PureWeeks
    /\ result = NoResult
    /\ rows = <<>>
    /\ OutlineIdle
    /\ SessionIdle

\* the first call with the arguments
FirstCall ==
    /\ pc = "start"
    /\ result' = PureCall(today)
    /\ earlier' = [result |-> result', year |-> today]
    /\ pc' = "called"
    /\ UNCHANGED <<text, today, week_info, call, rows, lines, idx, occ, mapping, st>>

\* date.today() moves into the next year
NewYear ==
    /\ today < MaxClockYear
    /\ today' = today + 1
    /\ UNCHANGED <<pc, text, week_info, call, result, rows, lines, idx, occ, mapping, st, earlier>>

\* a call with other arguments, by this user or another
OtherParseCall ==
    /\ pc = "called"
    /\ \E t \in PureFrags : result' = Return(parse_weeks_from_text(t, today))
    /\ UNCHANGED <<pc, text, today, week_info, call, rows, lines, idx, occ, mapping, st, earlier>>

OtherInferCall ==
    /\ pc = "called"
    /\ \E w \in {wi \in PureWeeks : wi.year = 0 /\ wi.date_range # S_NA} :
          result' = infer_class_dates_from_week(w, today)
    /\ UNCHANGED <<pc, text, today, week_info, call, rows, lines, idx, occ, mapping, st, earlier>>

\* the call with the same arguments again
SecondCall ==
    /\ pc = "called"
    /\ result' = PureCall(today)
    /\ pc' = "called_again"
    /\ UNCHANGED <<text, today, week_info, call, rows, lines, idx, occ, mapping, st, earlier>>

NextPure == FirstCall \/ NewYear \/ OtherParseCall \/ OtherInferCall \/ SecondCall

SpecPure == InitPure /\ [][NextPure]_vars

\* the arguments carry their year: a 20xx token in the text, a year in the week
C18_YearGiven ==
    IF call.function = S_parse_weeks THEN YearSearch(text).ok ELSE week_info.year # 0

-----------------------------------------------------------------------------
(* The draft and export part of the page (web_app.py, main): every action   *)
(* of the user reruns the script, which infers the defaults of the selected *)
(* week, resets the session when the week key changed, and rebuilds the     *)
(* exports from st.session_state                                            *)

\* re.sub(pattern, rep, s) from offset i; m[j] is the non-empty match the
\* pattern has at offset j
RECURSIVE ReSubFrom(_, _, _, _)
ReSubFrom(s, m, rep, i) ==
    IF i >= Len(s) THEN <<>>
    ELSE IF m[i].ok THEN rep \o ReSubFrom(s, m, rep, m[i].end)
    ELSE <<s[i + 1]>> \o ReSubFrom(s, m, rep, i + 1)

\* the offset after the run of characters of a set that starts at offset i
RECURSIVE RunEnd(_, _, _)
RunEnd(s, chars, i) == IF At(s, i) \in chars THEN RunEnd(s, chars, i + 1) ELSE i

\* [chars]+ at offset i
RunMatch(s, chars, i) ==
    IF At(s, i) \in chars THEN [ok |-> TRUE, start |-> i, end |-> RunEnd(s, chars, i)] ELSE NoMatch

\* a word of lower-case letters at offset i, under re.IGNORECASE
WordAt(s, w, i) == i + Len(w) <= Len(s) /\ LowerStr(SubSeq(s, i + 1, i + Len(w))) = w

S_syllabus == <<"s", "y", "l", "l", "a", "b", "u", "s">>
S_plan == <<"p", "l", "a", "n">>
S_weekly == <<"w", "e", "e", "k", "l", "y">>
S_week == <<"w", "e", "e", "k">>
S_life == <<"l", "i", "f", "e">>
S_science == <<"s", "c", "i", "e", "n", "c", "e">>
S_math == <<"m", "a", "t", "h">>
S_english == <<"e", "n", "g", "l", "i", "s", "h">>
S_social == <<"s", "o", "c", "i", "a", "l">>
S_studies == <<"s", "t", "u", "d", "i", "e", "s">>
S_Life_Science == <<"L", "i", "f", "e", " ", "S", "c", "i", "e", "n", "c", "e">>
S_G6 == <<"G", "6">>

\* Path(filename).stem of a file name without a directory
Stem(name) ==
    LET dots == {k \in 1..Len(name) : name[k] = "."}
        last == CHOOSE k \in dots : \A j \in dots : j <= k
    IN IF dots # {} /\ last > 1 /\ last < Len(name) THEN SubSeq(name, 1, last - 1) ELSE name

\* the first number above 0 in a list of lengths (0: there is none)
FirstPositive(lens) ==
    LET hits == {k \in 1..Len(lens) : lens[k] > 0}
    IN IF hits = {} THEN 0 ELSE lens[CHOOSE k \in hits : \A j \in hits : k <= j]
\* len if a match of that length at offset i ends at a word boundary
UpToBoundary(s, i, len) == IF len > 0 /\ WordBoundary(s, i + len) THEN len ELSE 0
WordLen(s, w, i) == IF WordAt(s, w, i) THEN Len(w) ELSE 0
\* 20\d{2} and \d{1,2}주 at offset i: the length of the match (0: no match)
YearLen(s, i) == IF At(s, i) = "2" /\ At(s, i + 1) = "0" /\ DigitRun2(s, i + 2) = 2 THEN 4 ELSE 0
WeekNoLen(s, i, n) ==
    IF n = 2 /\ At(s, i + 2) = "ju" THEN 3 ELSE IF n >= 1 /\ At(s, i + 1) = "ju" THEN 2 ELSE 0
\* w1\s*w2 at offset i, under re.IGNORECASE
TwoWordsLen(s, w1, w2, i, a) == IF WordAt(s, w1, i) /\ WordAt(s, w2, a) THEN a + Len(w2) - i ELSE 0

\* \b(20\d{2}|\d{1,2}주|syllabus|plan|weekly|week)\b at offset i: the length
\* of the first alternative that matches up to a word boundary (0: no match)
NoiseLen(s, i) ==
    IF ~WordBoundary(s, i) THEN 0
    ELSE FirstPositive(<<UpToBoundary(s, i, YearLen(s, i)),
                         UpToBoundary(s, i, WeekNoLen(s, i, DigitRun2(s, i))),
                         UpToBoundary(s, i, WordLen(s, S_syllabus, i)),
                         UpToBoundary(s, i, WordLen(s, S_plan, i)),
                         UpToBoundary(s, i, WordLen(s, S_weekly, i)),
                         UpToBoundary(s, i, WordLen(s, S_week, i))>>)
LenMatch(i, len) == IF len > 0 THEN [ok |-> TRUE, start |-> i, end |-> i + len] ELSE NoMatch
NoiseMatch(s, i) == LenMatch(i, NoiseLen(s, i))

\* (Life\s*Science|Science|Math|English|Social\s*Studies|국어|수학|과학|영어)
\* at offset i, under re.IGNORECASE: the length of the first alternative that
\* matches (0: no match)
SubjectLen(s, i) ==
    FirstPositive(<<TwoWordsLen(s, S_life, S_science, i, SkipWS(s, i + Len(S_life))),
                    WordLen(s, S_science, i), WordLen(s, S_math, i), WordLen(s, S_english, i),
                    TwoWordsLen(s, S_social, S_studies, i, SkipWS(s, i + Len(S_social))),
                    WordLen(s, <<"guk", "eo">>, i), WordLen(s, <<"su", "hak">>, i),
                    WordLen(s, <<"gwa", "hak">>, i), WordLen(s, <<"yeong", "eo">>, i)>>)

\* re.sub(r"[_\-]+", " ", s), the sub of the noise words, re.sub(r"\s+", " ", s)
SubDashes(s) == ReSubFrom(s, [i \in 0..Len(s) |-> RunMatch(s, {"_", "-"}, i)], <<" ">>, 0)
SubNoise(s) == ReSubFrom(s, [i \in 0..Len(s) |-> NoiseMatch(s, i)], <<" ">>, 0)
SubSpaces(s) == ReSubFrom(s, [i \in 0..Len(s) |-> RunMatch(s, Whitespace, i)], <<" ">>, 0)

\* return token if re.search(r"[A-Za-z]", token) else token.strip()
SubjectToken(token) == IF \E k \in 1..Len(token) : token[k] \in Latin THEN token ELSE Strip(token)
\* the part of _infer_subject_name after cleaned is known
SubjectHint(cleaned, hay, found) ==
    IF found = {} THEN OrElse(cleaned, S_Life_Science)
    ELSE LET first == CHOOSE i \in found : \A j \in found : i <= j
         IN SubjectToken(SubSeq(hay, first + 1, first + SubjectLen(hay, first)))
SubjectSearch(cleaned, hay) == SubjectHint(cleaned, hay, {i \in 0..Len(hay) : SubjectLen(hay, i) > 0})
SubjectOfCleaned(cleaned, detail) == SubjectSearch(cleaned, cleaned \o <<" ">> \o detail)

_infer_subject_name(filename, wi) ==
    SubjectOfCleaned(Strip(SubSpaces(SubNoise(SubDashes(Stem(OrElse(filename, <<>>)))))),
                     Get(wi, "details", <<>>))

\* \bG\s*\d{1,2}\b at offset i with the digits at offset a, under re.IGNORECASE
GradeAt(s, i, a, n) ==
    IF WordBoundary(s, i) /\ At(s, i) \in {"G", "g"} /\ n > 0 /\ WordBoundary(s, a + n)
    THEN [ok |-> TRUE, start |-> i, end |-> a + n, grade |-> <<Upper(At(s, i))>> \o SubSeq(s, a + 1, a + n)]
    ELSE NoMatch
GradeDigits(s, i, a) == GradeAt(s, i, a, DigitRun2(s, a))
GradeMatch(s, i) == GradeDigits(s, i, SkipWS(s, i + 1))

\* the least number of a set of numbers that is not empty
Least(S) == CHOOSE i \in S : \A j \in S : i <= j
\* re.search(r"\d+", s): the digits found (<<>>: no match)
DigitsIn(s, found) == IF found = {} THEN <<>> ELSE SubSeq(s, Least(found) + 1, RunEnd(s, Digits, Least(found)))
DigitsSearch(s) == DigitsIn(s, {i \in 0..(Len(s) - 1) : At(s, i) \in Digits})
\* the part of _infer_target_grade after the search
GradeFrom(search_space, found, ev) ==
    IF found # {} THEN GradeMatch(search_space, Least(found)).grade
    ELSE IF Len(ev) > 0 /\ DigitsSearch(ev[1]) # <<>> THEN <<"G">> \o DigitsSearch(ev[1])
    ELSE S_G6
GradeSearch(search_space, ev) ==
    GradeFrom(search_space, {i \in 0..Len(search_space) : GradeMatch(search_space, i).ok}, ev)

_infer_target_grade(wi) ==
    GradeSearch(Join(<<Get(wi, "raw_text", <<>>), Get(wi, "details", <<>>),
                       Join(Get(wi, "events", <<>>), <<" ">>)>>, <<" ">>),
                Get(wi, "events", <<>>))

\* the plan note (9), what the user types into the text area (11) or into
\* the date field (4)
UiNotes == {<<>>, <<"n">>}
UiEdits == {<<>>, <<"x">>, <<"p", "|", "t", "|", "c", "|", "r">>}
UiDates == {<<"3", ".", "3">>}

\* the selected syllabus: its PDF lists the weeks of two terms, and each
\* term starts at week 1
UiSyllabusText ==
    <<"1", "ju", " ", "2", ".", "2", "3", "-", "2", ".", "2", "7", " ", "hwa", "/", "mok", " ", "G", "6", " ", "x", "\n",
      "2", "ju", " ", "3", ".", "2", "-", "3", ".", "6", " ", "hwa", "/", "mok", " ", "G", "6", " ", "x", "\n",
      "1", "ju", " ", "9", ".", "1", "-", "9", ".", "5", " ", "hwa", "/", "mok", " ", "G", "6", " ", "y">>
UiSelected ==
    [id |-> <<"s", "1">>,
     name |-> <<"S", "c", "i", "e", "n", "c", "e", "_", "2", "0", "2", "6", "_", "p", "l", "a", "n", ".", "p", "d", "f">>,
     weeks |-> parse_weeks_from_text(UiSyllabusText, 2026),
     outline_map |-> <<>>]
UiWeeks == {UiSelected.weeks[k] : k \in 1..Len(UiSelected.weeks)}

\* f"{selected.get('id')}::{week_info.get('week_no')}::{class_for_mapping}"
week_key(selected, wi) ==
    LET class_candidates == IF Len(wi.events) > 0 THEN wi.events ELSE <<S_G6>>
        class_for_mapping == class_candidates[1]
    IN selected.id \o <<":", ":">> \o IntToStr(wi.week_no) \o <<":", ":">> \o class_for_mapping

\* the defaults inferred for a week (the "infer defaults" block)
AutoFields(selected, wi, now) ==
    LET auto_subject == _infer_subject_name(selected.name, wi)
        inferred == suggest_topic_objective_from_syllabus(wi, auto_subject, selected.outline_map).value
    IN [lesson_name |-> auto_subject,
        lesson_datetime |-> infer_class_dates_from_week(wi, now).value,
        target_group |-> _infer_target_grade(wi),
        lesson_topic |-> inferred.lesson_topic,
        theme_objective |-> inferred.theme_objective]
UiAuto == [w \in UiWeeks |-> AutoFields(UiSelected, w, 2026)]
AutoNames == {"lesson_name", "lesson_datetime", "target_group", "lesson_topic", "theme_objective"}

\* st.session_state when the script first runs: the session defaults
SessionDefaults ==
    [kind |-> "session", last_week_key |-> <<>>,
     lesson_name |-> None, lesson_datetime |-> None, target_group |-> None, lesson_topic |-> None,
     theme_objective |-> <<>>, lesson_rows_input |-> <<>>, applied_draft_text |-> <<>>,
     export_draft_text |-> <<>>, lesson_rows |-> <<>>, full_txt |-> <<>>, uploaded |-> None]

\* if st.session_state["last_week_key"] != week_key: ...
InferStep(s, selected, auto, wi) ==
    LET key == week_key(selected, wi)
    IN IF s.last_week_key # key
       THEN [s EXCEPT !.lesson_name = auto.lesson_name,
                      !.lesson_datetime = auto.lesson_datetime,
                      !.target_group = auto.target_group,
                      !.lesson_topic = auto.lesson_topic,
                      !.theme_objective = auto.theme_objective,
                      !.lesson_rows_input = <<>>,
                      !.applied_draft_text = <<>>,
                      !.last_week_key = key]
       ELSE s

\* the run of the script below the buttons: draft_text is the text area,
\* export_draft_text, fields["lesson_rows"] and full_txt are built from the
\* session; uploaded is the draft text of the last Google Doc
PageRun(s, uploaded) ==
    [s EXCEPT !.export_draft_text = OrElse(s.applied_draft_text, s.lesson_rows_input),
              !.lesson_rows = normalize_table_rows(parse_table_rows_text(s.lesson_rows_input)),
              !.full_txt = s.lesson_rows_input,
              !.uploaded = uploaded]

\* the index holds the selected syllabus; result holds what the "infer
\* defaults" block computes for each of its weeks
InitUI ==
    /\ pc = "start"
    /\ call = UiSelected
    /\ result = Return(UiAuto)
    /\ week_info = call.weeks[1]
    /\ text = <<>>
    /\ today = 2026
    /\ rows = <<>>
    /\ OutlineIdle
    /\ SessionIdle

\* the first run of a session: the first week is selected, last_week_key is ""
OpenPage ==
    /\ pc = "start"
    /\ st' = PageRun(InferStep(SessionDefaults, call, result.value[week_info], week_info), None)
    /\ pc' = "page"
    /\ UNCHANGED <<text, today, week_info, call, result, rows, lines, idx, occ, mapping, earlier>>

\* another week is picked in the select box
PickWeek ==
    /\ pc \in {"page", "uploaded"}
    /\ \E k \in 1..Len(call.weeks) : call.weeks[k] # week_info /\ week_info' = call.weeks[k]
    /\ st' = PageRun(InferStep(st, call, result.value[week_info'], week_info'), st.uploaded)
    /\ pc' = "page"
    /\ UNCHANGED <<text, today, call, result, rows, lines, idx, occ, mapping, earlier>>

\* button (10): the draft is generated and applied
ClickGenerate ==
    /\ pc \in {"page", "uploaded"}
    /\ \E plan_note \in UiNotes :
          LET draft == generate_lesson_table_rows_text(week_info, plan_note, TRUE)
          IN st' = PageRun([InferStep(st, call, result.value[week_info], week_info) EXCEPT !.lesson_rows_input = draft,
                                                            !.applied_draft_text = draft], st.uploaded)
    /\ pc' = "page"
    /\ UNCHANGED <<text, today, week_info, call, result, rows, lines, idx, occ, mapping, earlier>>

\* the user edits the text area (11)
EditDraft ==
    /\ pc \in {"page", "uploaded"}
    /\ \E t \in UiEdits :
          /\ t # st.lesson_rows_input
          /\ st' = PageRun(InferStep([st EXCEPT !.lesson_rows_input = t], call, result.value[week_info], week_info), st.uploaded)
    /\ pc' = "page"
    /\ UNCHANGED <<text, today, week_info, call, result, rows, lines, idx, occ, mapping, earlier>>

\* the user types a date into the field (4)
EditDate ==
    /\ pc \in {"page", "uploaded"}
    /\ \E t \in UiDates :
          /\ t # st.lesson_datetime
          /\ st' = PageRun(InferStep([st EXCEPT !.lesson_datetime = t], call, result.value[week_info], week_info), st.uploaded)
    /\ pc' = "page"
    /\ UNCHANGED <<text, today, week_info, call, result, rows, lines, idx, occ, mapping, earlier>>

\* button (11-1): the text area is applied
ClickApply ==
    /\ pc \in {"page", "uploaded"}
    /\ LET s == InferStep(st, call, result.value[week_info], week_info)
       IN st' = PageRun([s EXCEPT !.applied_draft_text = s.lesson_rows_input], st.uploaded)
    /\ pc' = "page"
    /\ UNCHANGED <<text, today, week_info, call, result, rows, lines, idx, occ, mapping, earlier>>

\* button "Upload as Google Doc": compose_report_text(fields, export_draft_text)
ClickUpload ==
    /\ pc \in {"page", "uploaded"}
    /\ LET s == InferStep(st, call, result.value[week_info], week_info)
       IN st' = PageRun(s, OrElse(s.applied_draft_text, s.lesson_rows_input))
    /\ pc' = "uploaded"
    /\ UNCHANGED <<text, today, week_info, call, result, rows, lines, idx, occ, mapping, earlier>>

NextUI == OpenPage \/ PickWeek \/ ClickGenerate \/ EditDraft \/ EditDate \/ ClickApply \/ ClickUpload

SpecUI == InitUI /\ [][NextUI]_vars

\* C19: the exports of a run are built from one draft text: the draft text
\* of the TXT download, the text the PDF and DOCX rows are parsed from and
\* the draft text uploaded to Google Docs are the same.
C19_ExportsFromOneDraft ==
    pc = "uploaded" =>
        /\ st.uploaded = st.full_txt
        /\ st.lesson_rows = normalize_table_rows(parse_table_rows_text(st.uploaded))

-----------------------------------------------------------------------------
(* The credential reader (google_drive_uploader.py).  A JSON value is a     *)
(* record: t is its Python type, s the characters of a str (or the digits   *)
(* of an int), d the items of a dict in insertion order.  In a JSON text    *)
(* the characters between two quotes are tokens of the str; a word such as  *)
(* authorized_user is one token.                                            *)

PyNone == [t |-> "none", s |-> <<>>, d |-> <<>>]
JStr(s) == [t |-> "str", s |-> s, d |-> <<>>]
JInt(s) == [t |-> "int", s |-> s, d |-> <<>>]
JList == [t |-> "list", s |-> <<>>, d |-> <<>>]
JDict(d) == [t |-> "dict", s |-> <<>>, d |-> d]
Item(k, v) == [k |-> k, v |-> v]

S_type == <<"type">>
S_data == <<"data">>
S_authorized_user == <<"authorized_user">>
S_GoogleAuthConfigError == "GoogleAuthConfigError"

isinstance_dict(v) == v.t = "dict"

\* d.get(key) of a dict d
JGet(v, key) ==
    IF \E i \in 1..Len(v.d) : v.d[i].k = key
    THEN v.d[CHOOSE i \in 1..Len(v.d) : v.d[i].k = key].v
    ELSE PyNone

\* d[key] = value: a key already there keeps its place
JSet(d, key, value) ==
    IF \E i \in 1..Len(d) : d[i].k = key
    THEN [i \in 1..Len(d) |-> IF d[i].k = key THEN Item(key, value) ELSE d[i]]
    ELSE Append(d, Item(key, value))

\* the 1-based index of the first token at or after i that is not whitespace
SkipSpace(toks, i) ==
    IF \E j \in i..Len(toks) : toks[j] \notin Whitespace
    THEN CHOOSE j \in i..Len(toks) : toks[j] \notin Whitespace /\ \A k \in i..(j - 1) : toks[k] \in Whitespace
    ELSE Len(toks) + 1

DecodeError == [ok |-> FALSE, val |-> PyNone, next |-> 0]
Decoded(v, next) == [ok |-> TRUE, val |-> v, next |-> next]

\* a JSON string whose opening quote is toks[i]
ScanString(toks, i) ==
    IF \E j \in (i + 1)..Len(toks) : toks[j] = "\""
    THEN LET j == CHOOSE j \in (i + 1)..Len(toks) : toks[j] = "\"" /\ \A k \in (i + 1)..(j - 1) : toks[k] # "\""
         IN Decoded(JStr(SubSeq(toks, i + 1, j - 1)), j + 1)
    ELSE DecodeError

RECURSIVE ScanValue(_, _), ScanMembers(_, _, _)
\* json.JSONDecoder.raw_decode from token i on
ScanValue(toks, i) ==
    LET j == SkipSpace(toks, i) IN
    IF j > Len(toks) THEN DecodeError
    ELSE IF toks[j] = "\"" THEN ScanString(toks, j)
    ELSE IF toks[j] = "null" THEN Decoded(PyNone, j + 1)
    ELSE IF toks[j] \in Digits THEN Decoded(JInt(<<toks[j]>>), j + 1)
    ELSE IF toks[j] = "[" THEN
        (IF SkipSpace(toks, j + 1) <= Len(toks) /\ toks[SkipSpace(toks, j + 1)] = "]"
         THEN Decoded(JList, SkipSpace(toks, j + 1) + 1) ELSE DecodeError)
    ELSE IF toks[j] = "{" THEN
        (IF SkipSpace(toks, j + 1) <= Len(toks) /\ toks[SkipSpace(toks, j + 1)] = "}"
         THEN Decoded(JDict(<<>>), SkipSpace(toks, j + 1) + 1)
         ELSE ScanMembers(toks, j + 1, <<>>))
    ELSE DecodeError
\* the members of an object from token i on, d holding those before
ScanMembers(toks, i, d) ==
    LET j == SkipSpace(toks, i) IN
    IF j > Len(toks) \/ toks[j] # "\"" THEN DecodeError
    ELSE LET key == ScanString(toks, j)
             colon == IF key.ok THEN SkipSpace(toks, key.next) ELSE 0
         IN IF ~key.ok \/ colon > Len(toks) \/ toks[colon] # ":" THEN DecodeError
            ELSE LET value == ScanValue(toks, colon + 1)
                     end == IF value.ok THEN SkipSpace(toks, value.next) ELSE 0
                 IN IF ~value.ok \/ end > Len(toks) THEN DecodeError
                    ELSE IF toks[end] = "}" THEN Decoded(JDict(JSet(d, key.val.s, value.val)), end + 1)
                    ELSE IF toks[end] = "," THEN ScanMembers(toks, end + 1, JSet(d, key.val.s, value.val))
                    ELSE DecodeError

\* json.loads(raw_json): the whole text is one value
json_loads(raw_json) ==
    LET r == ScanValue(raw_json, 1) IN
    IF r.ok /\ SkipSpace(raw_json, r.next) > Len(raw_json) THEN r ELSE DecodeError

RECURSIVE json_dumps(_), DumpsItems(_, _)
\* json.dumps(obj, ensure_ascii=False)
json_dumps(obj) ==
    IF obj.t = "str" THEN <<"\"">> \o obj.s \o <<"\"">>
    ELSE IF obj.t = "int" THEN obj.s
    ELSE IF obj.t = "list" THEN <<"[", "]">>
    ELSE IF obj.t = "dict" THEN <<"{">> \o DumpsItems(obj.d, 1) \o <<"}">>
    ELSE <<"null">>
DumpsItems(d, i) ==
    IF i > Len(d) THEN <<>>
    ELSE (IF i > 1 THEN <<",", " ">> ELSE <<>>)
         \o <<"\"">> \o d[i].k \o <<"\"", ":", " ">> \o json_dumps(d[i].v)
         \o DumpsItems(d, i + 1)

\* {"type": "authorized_user", "data": data}
AuthorizedUser(data) == JDict(<<Item(S_type, JStr(S_authorized_user)), Item(S_data, data)>>)

_payload_from_json_string(raw_json) ==
    LET parsed == json_loads(raw_json) IN
    IF ~parsed.ok THEN Raise(S_GoogleAuthConfigError)
    ELSE IF ~isinstance_dict(parsed.val) THEN Raise(S_GoogleAuthConfigError)
    ELSE IF JGet(parsed.val, S_type) = JStr(S_authorized_user)
         THEN Return(AuthorizedUser(parsed.val))
    ELSE IF JGet(parsed.val, S_type) = JStr(S_authorized_user) /\ isinstance_dict(JGet(parsed.val, S_data))
         THEN Return(AuthorizedUser(JGet(parsed.val, S_data)))
    ELSE Raise(S_GoogleAuthConfigError)

_normalize_authorized_user_payload(payload) ==
    IF JGet(payload, S_type) = JStr(S_authorized_user) /\ isinstance_dict(JGet(payload, S_data))
    THEN AuthorizedUser(JGet(payload, S_data))
    ELSE IF JGet(payload, S_type) = JStr(S_authorized_user)
    THEN AuthorizedUser(payload)
    ELSE AuthorizedUser(payload)

\* credential_json_override: a dict, a str or None
OverrideDict(v) == [as |-> "dict", dict |-> v, str |-> <<>>]
OverrideStr(raw) == [as |-> "str", dict |-> PyNone, str |-> raw]
OverrideNone == [as |-> "none", dict |-> PyNone, str |-> <<>>]

\* the Streamlit secret gcp_oauth_user and the variable GOOGLE_OAUTH_USER_JSON
Environment(secret, environ) == [kind |-> "environment", gcp_oauth_user |-> secret, GOOGLE_OAUTH_USER_JSON |-> environ]

_read_credentials_payload(credential_json_override, env) ==
    IF credential_json_override.as = "dict"
    THEN Return(_normalize_authorized_user_payload(credential_json_override.dict))
    ELSE IF Strip(credential_json_override.str) # <<>>
    THEN _payload_from_json_string(Strip(credential_json_override.str))
    ELSE IF env.gcp_oauth_user # PyNone /\ env.gcp_oauth_user # JDict(<<>>)
    THEN Return(AuthorizedUser(env.gcp_oauth_user))
    ELSE IF Strip(env.GOOGLE_OAUTH_USER_JSON) # <<>>
    THEN _payload_from_json_string(Strip(env.GOOGLE_OAUTH_USER_JSON))
    ELSE Raise(S_GoogleAuthConfigError)

\* the payloads: with or without a type, a data and a refresh_token
MaxCredKeys == 2
CredAbsent == [t |-> "absent", s |-> <<>>, d |-> <<>>]
CredUser == JDict(<<Item(S_type, JStr(S_authorized_user)), Item(<<"refresh_token">>, JStr(<<"r">>))>>)
CredTypes == {CredAbsent, JStr(S_authorized_user), JStr(<<"service_account">>)}
CredDatas == {CredAbsent, JStr(<<"x">>), JDict(<<>>), CredUser, JDict(<<Item(<<"refresh_token">>, JStr(<<"r">>))>>)}
CredExtras == {CredAbsent, JStr(<<"r">>), JInt(<<"1">>)}
CredItem(k, v) == IF v = CredAbsent THEN <<>> ELSE <<Item(k, v)>>
CredDicts ==
    {JDict(CredItem(S_type, ty) \o CredItem(S_data, da) \o CredItem(<<"refresh_token">>, ex)) :
        ty \in CredTypes, da \in CredDatas, ex \in CredExtras}
CredBounded == {v \in CredDicts : Len(v.d) <= MaxCredKeys}
CredTexts ==
    {json_dumps(v) : v \in CredBounded}
    \cup {<<" ">> \o json_dumps(v) \o <<"\n">> : v \in {AuthorizedUser(CredUser), CredUser}}
    \cup {<<>>, <<" ">>, <<"{">>, <<"[", "]">>, <<"null">>, <<"\"", "x", "\"">>, <<"{", "}", "x">>,
          <<"{", "\"", "type", "\"", ":", "1", ",", "\"", "type", "\"", ":", "\"", "authorized_user", "\"", "}">>,
          <<"{", "\"", "type", "\"", ":", "\"", "authorized_user", "\"", ",", "}">>}
CredOverrides ==
    {OverrideDict(v) : v \in CredBounded} \cup {OverrideStr(raw) : raw \in CredTexts} \cup {OverrideNone}
CredEnvironments ==
    {Environment(secret, environ) : secret \in {PyNone, CredUser},
                                    environ \in {<<>>, json_dumps(CredUser), json_dumps(JStr(<<"x">>))}}

InitCred ==
    /\ pc = "start"
    /\ call \in CredOverrides
    /\ st \in CredEnvironments
    /\ earlier = NoResult
    /\ text = <<>>
    /\ today = 2026
    /\ week_info = WeekInfo(0, S_NA, <<>>, <<>>, <<>>, 2026)
    /\ result = NoResult
    /\ rows = <<>>
    /\ OutlineIdle

\* a dict payload is handed over as the JSON text of the same payload
PasteAsText ==
    /\ pc = "start"
    /\ call.as = "dict"
    /\ call' = OverrideStr(json_dumps(call.dict))
    /\ pc' = "pasted"
    /\ UNCHANGED <<text, today, week_info, result, rows, lines, idx, occ, mapping, st, earlier>>

ReadCredentials ==
    /\ pc \in {"start", "pasted"}
    /\ result' = _read_credentials_payload(call, st)
    /\ pc' = "read"
    /\ UNCHANGED <<text, today, week_info, call, rows, lines, idx, occ, mapping, st, earlier>>

NextCred == PasteAsText \/ ReadCredentials

SpecCred == InitCred /\ [][NextCred]_vars

\* C20: a wrapped payload {"type": "authorized_user", "data": {...}} given as
\* a JSON string is read as {"type": "authorized_user", "data": <the inner
\* data>}, the result the reader gives for the same payload as a dict; a
\* bare authorized_user JSON is returned as its own data.
C20_Text == Strip(call.str)
C20_Parsed == json_loads(C20_Text).val
C20_WrappedTextAsDict ==
    (/\ pc = "read"
     /\ call.as = "str"
     /\ C20_Text # <<>>
     /\ json_loads(C20_Text).ok
     /\ isinstance_dict(C20_Parsed)
     /\ JGet(C20_Parsed, S_type) = JStr(S_authorized_user))
    => IF isinstance_dict(JGet(C20_Parsed, S_data))
       THEN /\ result = Return(AuthorizedUser(JGet(C20_Parsed, S_data)))
            /\ result = _read_credentials_payload(OverrideDict(C20_Parsed), st)
       ELSE result = Return(AuthorizedUser(C20_Parsed))

-----------------------------------------------------------------------------
(* Parsing and inference end to end, under SpecWeeks *)

\* "1ju 2.23-2.27 hwa/mok": a header line directly followed by a weekday run
C21_HeaderLine == <<"1", "ju", " ", "2", ".", "2", "3", "-", "2", ".", "2", "7", " ", "hwa", "/", "mok">>
\* the selected week comes from such a block, which holds no date token but
\* the two of its header
C21_Case ==
    /\ pc = "week_dates"
    /\ week_info.date_range = Str_2_23_2_27
    /\ Take(week_info.raw_text, Len(C21_HeaderLine)) = C21_HeaderLine
    /\ Len(MonthDayFindAll(week_info.raw_text)) = 2
C21_Start == Date(week_info.year, 2, 23)
C21_End == Date(week_info.year, 2, 27)

\* C21: for a week parsed from a header line "<n>ju M.D-M.D" directly
\* followed by a weekday run, with no other date token in the block, the
\* inferred label lists the dates of the range that fall on the named
\* weekdays; the end of the header's range is not read as an explicit pair.
C21_HeaderEndNotExplicit ==
    C21_Case =>
        /\ result.kind = "return"
        /\ DatesPart(result.value) =
              LabelOf(Ascending(DatesBetween(C21_Start, C21_End, {WEEKDAY_MAP("hwa"), WEEKDAY_MAP("mok")})))

-----------------------------------------------------------------------------
(* The range of dates, under SpecDates *)

\* the range is two month.day tokens that name dates of the week's year, the
\* end earlier in the calendar than the start, and the text holds no explicit
\* date-weekday pair
C22_Case ==
    /\ pc = "class_dates"
    /\ Len(C5_Tokens) >= 2
    /\ ValidDate(C5_Start.year, C5_Start.month, C5_Start.day)
    /\ ValidDate(C5_EndSameYear.year, C5_EndSameYear.month, C5_EndSameYear.day)
    /\ C5_Rolled
    /\ DateDayFindAll(RawOf(week_info)) = <<>>
C22_Days == IF C5_Named = {} THEN 0..6 ELSE C5_Named
C22_Hits == Ascending(DatesBetween(C5_Start, C5_End, C22_Days))

\* C22: an end month.day earlier in the calendar than the start is taken in
\* the following year: the label lists dates from the start in the week's
\* year through the end in the year after, ascending and never none.
C22_EndInFollowingYear ==
    C22_Case =>
        /\ result.kind = "return"
        /\ DatesPart(result.value) = LabelOf(IF C22_Hits # <<>> THEN C22_Hits ELSE <<C5_Start, C5_End>>)

\* the range is two month.day tokens that name dates (the end in the year
\* after when it is earlier than the start) and the text holds no explicit
\* date-weekday pair: the dates are enumerated
C23_Case ==
    /\ pc = "class_dates"
    /\ Len(C5_Tokens) >= 2
    /\ ValidDate(C5_Start.year, C5_Start.month, C5_Start.day)
    /\ ValidDate(C5_EndSameYear.year, C5_EndSameYear.month, C5_EndSameYear.day)
    /\ ValidDate(C5_End.year, C5_End.month, C5_End.day)
    /\ DateDayFindAll(RawOf(week_info)) = <<>>
C23_OnNamed == Ascending(DatesBetween(C5_Start, C5_End, C5_Named))

\* C23_Case and the claim, given the start, the end in the start's year, the
\* end and the named weekdays
C23_Checked(start, end_same, end, named) ==
    (/\ ValidDate(start.year, start.month, start.day)
     /\ ValidDate(end_same.year, end_same.month, end_same.day)
     /\ ValidDate(end.year, end.month, end.day)
     /\ DateDayFindAll(RawOf(week_info)) = <<>>) =>
        /\ result.kind = "return"
        /\ (named = {} =>
               DatesPart(result.value) =
                   LabelOf(Ascending(DatesBetween(start, end, 0..6))))
        /\ (named # {} /\ DatesBetween(start, end, named) = {} =>
               DatesPart(result.value) = LabelOf(IF start # end THEN <<start, end>> ELSE <<start>>))

-----------------------------------------------------------------------------
(* The outline-code topic, under SpecSuggest *)

\* the codes of the week's text, raw_text before details before events, each
\* in upper case, and the place where each is first seen
C24_Found ==
    SubsectionCodeFindIter(week_info.raw_text \o <<" ">> \o week_info.details
                           \o <<" ">> \o Join(week_info.events, <<" ">>))
C24_CodeSet == {UpperStr(C24_Found[k].code) : k \in 1..Len(C24_Found)}
C24_FirstSeen(c) == CHOOSE k \in 1..Len(C24_Found) :
                        /\ UpperStr(C24_Found[k].code) = c
                        /\ \A j \in 1..(k - 1) : UpperStr(C24_Found[j].code) # c
C24_Codes ==
    [i \in 1..Cardinality(C24_CodeSet) |->
        CHOOSE c \in C24_CodeSet :
            Cardinality({d \in C24_CodeSet : C24_FirstSeen(d) < C24_FirstSeen(c)}) = i - 1]
\* the titles the outline map holds under a key that is c in upper case, or
\* the bare code when it holds none
C24_Titles(c) ==
    LET hits == {call.outline_map[k][2] : k \in {k \in 1..Len(call.outline_map) : UpperStr(call.outline_map[k][1]) = c}}
    IN IF hits = {} THEN {c} ELSE hits

\* C24: with one or more subsection codes in the week, the topic of
\* suggest_topic_objective_from_syllabus is the ", "-joined list, in
\* first-seen order and without duplicates, of the outline title of each
\* mapped code and the bare upper-case code of each unmapped one, codes and
\* keys compared without regard to letter case.
C24_TopicFromCodes ==
    (pc = "suggested_from_syllabus" /\ C24_CodeSet # {}) =>
        /\ result.kind = "return"
        /\ \E titles \in [1..Len(C24_Codes) -> UNION {C24_Titles(c) : c \in C24_CodeSet}] :
              /\ \A i \in 1..Len(C24_Codes) : titles[i] \in C24_Titles(C24_Codes[i])
              /\ result.value.lesson_topic = Join(titles, <<",", " ">>)

\* the text "1a 1B 1A" with the map {"1b": "sosu"}: 1A twice and unmapped, 1B
\* mapped under a lower-case key
C24_Witness ==
    /\ pc = "suggested_from_syllabus"
    /\ week_info.raw_text = <<"1", "a", " ", "1", "B", " ", "1", "A">>
    /\ call.outline_map = <<<<<<"1", "b">>, <<"so", "su">>>>>>
    /\ result.value.lesson_topic = <<"1", "A", ",", " ", "so", "su">>

-----------------------------------------------------------------------------
(* Repeated normalisation, under SpecRows *)

\* out keeps rows of in in their order: each row of out is a row of in with
\* its fields stripped, its content possibly longer by what was merged into it
C25_KeptInOrder(in, out) ==
    \E f \in [1..Len(out) -> 1..Len(in)] :
        /\ \A i \in 1..Len(out) : \A j \in 1..Len(out) : i < j => f[i] < f[j]
        /\ \A i \in 1..Len(out) :
              /\ out[i].phase = Strip(in[f[i]].phase)
              /\ out[i].time = Strip(in[f[i]].time)
              /\ out[i].remarks = Strip(in[f[i]].remarks)
              /\ Take(out[i].content, Len(Strip(in[f[i]].content))) = Strip(in[f[i]].content)

\* C25: normalize_table_rows is idempotent: rows that come out of it (from
\* parse_table_rows_text, the page or the renderer) are left as they are by
\* another pass; a pass never returns more rows than it was given and keeps
\* the order of the rows it keeps.
C25_NormalizeIdempotent ==
    /\ [](pc \in {"parsed", "normalized", "rendered"} => normalize_table_rows(rows) = rows)
    /\ [][Normalize => (Len(rows') <= Len(rows) /\ C25_KeptInOrder(rows, rows'))]_vars

\* two rows handed over, the second without content: it was merged into the
\* first, and one row came out
C25_Witness ==
    /\ pc = "normalized"
    /\ Len(rows) = 1
    /\ rows[1].content = <<"c", "\n", "p", " ", "|", " ", "t", " ", "|", " ", "r">>

-----------------------------------------------------------------------------
(* The OAuth part of the page (web_app.py, main, lines 371-449).  call is   *)
(* st.query_params, st the session; a run of the script handles the query   *)
(* and then the login button.                                               *)

MaxLogins == 2

S_oauth_callback == <<"/", "oauth", "/", "callback">>
\* f"{app_base_url.rstrip('/')}/oauth/callback" if app_base_url else ""
redirect_uri(app_base_url) ==
    IF app_base_url # <<>> THEN RStripChars(app_base_url, {"/"}) \o S_oauth_callback ELSE <<>>

QueryParams(code, state) == [code |-> code, state |-> state]
\* the values of str(uuid.uuid4()), one per login started
OAuthStates == {<<"s", DigitChar(n)>> : n \in 1..MaxLogins}
OAuthCodes == {<<>>, <<"c", "1">>, <<"c", "2">>}
OAuthQueries == {QueryParams(c, s) : c \in OAuthCodes, s \in OAuthStates \cup {<<>>, <<"forged">>}}
OAuthBaseUrls == {<<>>, <<" ">>, <<"https://app", "/">>}
\* what exchange_oauth_code_for_user_credentials meets: a token with a
\* refresh_token, a token without one, a failure of the client JSON or of
\* fetch_token, an error of another kind
OAuthOutcomes == {"token", "no_refresh_token", "GoogleAuthConfigError", "Exception"}

\* user_creds for the code exchanged
UserCreds(code) ==
    JDict(<<Item(S_type, JStr(S_authorized_user)), Item(<<"refresh_token">>, JStr(<<"r">> \o code))>>)

OAuthSession(oauth_state, payload, app_base_url, logins, exchanged) ==
    [kind |-> "oauth", oauth_state |-> oauth_state, gcp_oauth_user_payload |-> payload,
     app_base_url |-> app_base_url, logins |-> logins, exchanged |-> exchanged]

\* one run that exchanges the code whatever state the query carries
OAuthRunStateUnchecked(s, query, base_input, login, outcome) ==
    LET app_base_url == Strip(base_input)
        attempt == /\ query.code # <<>> /\ query.state # <<>>
                   /\ redirect_uri(app_base_url) # <<>>
        stored == attempt /\ outcome = "token"
        started == login = "url" /\ redirect_uri(app_base_url) # <<>>
    IN [session |-> OAuthSession(IF started THEN <<"s", DigitChar(s.logins + 1)>> ELSE s.oauth_state,
                                 IF stored THEN AuthorizedUser(UserCreds(query.code)) ELSE s.gcp_oauth_user_payload,
                                 app_base_url,
                                 IF started THEN s.logins + 1 ELSE s.logins,
                                 attempt),
        query |-> IF stored THEN QueryParams(<<>>, <<>>) ELSE query]

\* one run of the script from the App Base URL input to the login button:
\* the session and the query parameters after it.  exchanged is whether
\* exchange_oauth_code_for_user_credentials was called in the run, logins
\* counts the values uuid.uuid4() has given.  login is "no" without the
\* button, "url" when build_oauth_authorization_url returns and "error" when
\* it raises.
OAuthRun(s, query, base_input, login, outcome) ==
    LET app_base_url == Strip(base_input)
        saved_state == s.oauth_state
        attempt == /\ query.code # <<>> /\ query.state # <<>>
                   /\ ~(saved_state = <<>> \/ query.state # saved_state)
                   /\ redirect_uri(app_base_url) # <<>>
        stored == attempt /\ outcome = "token"
        started == login = "url" /\ redirect_uri(app_base_url) # <<>>
    IN [session |-> OAuthSession(IF started THEN <<"s", DigitChar(s.logins + 1)>> ELSE s.oauth_state,
                                 IF stored THEN AuthorizedUser(UserCreds(query.code)) ELSE s.gcp_oauth_user_payload,
                                 app_base_url,
                                 IF started THEN s.logins + 1 ELSE s.logins,
                                 attempt),
        query |-> IF stored THEN QueryParams(<<>>, <<>>) ELSE query]

\* the session defaults (lines 170-190)
OAuthDefaults == OAuthSession(<<>>, PyNone, <<>>, 0, FALSE)

InitOAuth ==
    /\ pc = "page"
    /\ st = OAuthDefaults
    /\ call = QueryParams(<<>>, <<>>)
    /\ earlier = NoResult
    /\ text = <<>>
    /\ today = 2026
    /\ week_info = WeekInfo(0, S_NA, <<>>, <<>>, <<>>, 2026)
    /\ result = NoResult
    /\ rows = <<>>
    /\ OutlineIdle

\* the browser comes to the page with query parameters, sent back by Google
\* or by a link of someone else's making, in the session it has
Navigate ==
    /\ pc = "page"
    /\ \E q \in OAuthQueries : call' = q
    /\ pc' = "request"
    /\ UNCHANGED <<text, today, week_info, result, rows, lines, idx, occ, mapping, st, earlier>>

\* the same in a new session: the session state starts from the defaults
NavigateNewSession ==
    /\ pc = "page"
    /\ \E q \in OAuthQueries : call' = q
    /\ st' = [OAuthDefaults EXCEPT !.logins = st.logins]
    /\ pc' = "request"
    /\ UNCHANGED <<text, today, week_info, result, rows, lines, idx, occ, mapping, earlier>>

\* a run without the login button
RunPage ==
    /\ pc \in {"page", "request"}
    /\ \E base_input \in OAuthBaseUrls \cup {st.app_base_url} : \E outcome \in OAuthOutcomes :
          LET run == OAuthRun(st, call, base_input, "no", outcome)
          IN st' = run.session /\ call' = run.query
    /\ pc' = "page"
    /\ UNCHANGED <<text, today, week_info, result, rows, lines, idx, occ, mapping, earlier>>

\* a run started by the login button
ClickLogin ==
    /\ pc = "page"
    /\ st.logins < MaxLogins
    /\ \E outcome \in OAuthOutcomes : \E login \in {"url", "error"} :
          LET run == OAuthRun(st, call, st.app_base_url, login, outcome)
          IN st' = run.session /\ call' = run.query
    /\ pc' = "page"
    /\ UNCHANGED <<text, today, week_info, result, rows, lines, idx, occ, mapping, earlier>>

NextOAuth == Navigate \/ NavigateNewSession \/ RunPage \/ ClickLogin

SpecOAuth == InitOAuth /\ [][NextOAuth]_vars

\* the run that leads to the next state is one the claim allows to exchange
C26_Allowed ==
    /\ call.code # <<>>
    /\ call.state # <<>>
    /\ st.oauth_state # <<>>
    /\ call.state = st.oauth_state
    /\ redirect_uri(st'.app_base_url) # <<>>

\* C26: the code is exchanged, and gcp_oauth_user_payload set, only in a run
\* whose query carries a code and a state, with the session's oauth_state
\* non-empty and equal to that state and a non-empty redirect URI; in every
\* other run gcp_oauth_user_payload keeps its value.
C26_ExchangeOnlyForOwnState ==
    [][(RunPage \/ ClickLogin) =>
          /\ (st'.exchanged => C26_Allowed)
          /\ (st'.gcp_oauth_user_payload # st.gcp_oauth_user_payload => st'.exchanged /\ C26_Allowed)]_vars

\* a login was started, Google sent the browser back with the state of that
\* login, and the code was exchanged and stored
C26_Witness ==
    /\ pc = "page"
    /\ st.kind = "oauth"
    /\ st.exchanged
    /\ st.gcp_oauth_user_payload = AuthorizedUser(UserCreds(<<"c", "1">>))
    /\ call = QueryParams(<<>>, <<>>)

-----------------------------------------------------------------------------
(* The syllabus store (web_app.py): the index file, the syllabi directory   *)
(* and sessions that each run add_syllabus or delete_syllabus, a file       *)
(* operation at a time.  st.index is the list in syllabi_index.json, a      *)
(* record given by its id; st.files is the ids whose PDF is in the          *)
(* directory; st.session[p] is where session p stands, with its local list. *)

MaxSessions == 2
Sessions == 1..MaxSessions

\* the record stored before the sessions start, and the id uuid.uuid4() gives
\* session p
StoredItem == <<"a">>
NewItem(p) == <<"n", DigitChar(p)>>

StoreSession(at, op, item, local) == [at |-> at, op |-> op, item |-> item, local |-> local]
Store(index, files, session) == [kind |-> "store", index |-> index, files |-> files, session |-> session]
Ids(index) == {index[k] : k \in 1..Len(index)}
\* st with session p moved on
StoreStep(index, files, p, session) == Store(index, files, [st.session EXCEPT ![p] = session])

InitStore ==
    /\ pc = "store"
    /\ \E ops \in [Sessions -> {"add", "delete"}] :
          st = Store(<<StoredItem>>, {StoredItem},
                     [p \in Sessions |-> StoreSession("idle", ops[p],
                                                      IF ops[p] = "add" THEN NewItem(p) ELSE StoredItem, <<>>)])
    /\ call = <<>>
    /\ earlier = NoResult
    /\ text = <<>>
    /\ today = 2026
    /\ week_info = WeekInfo(0, S_NA, <<>>, <<>>, <<>>, 2026)
    /\ result = NoResult
    /\ rows = <<>>
    /\ OutlineIdle

\* add_syllabus: pdf_path.write_bytes(uploaded_pdf.getbuffer())
AddWriteFile(p) ==
    /\ st.session[p].at = "idle" /\ st.session[p].op = "add"
    /\ st' = StoreStep(st.index, st.files \cup {st.session[p].item}, p, [st.session[p] EXCEPT !.at = "written"])
    /\ UNCHANGED <<pc, text, today, week_info, call, result, rows, lines, idx, occ, mapping, earlier>>

\* add_syllabus: syllabus_parsed = parse_syllabus_pdf(pdf_path) returns
AddParse(p) ==
    /\ st.session[p].at = "written"
    /\ st' = StoreStep(st.index, st.files, p, [st.session[p] EXCEPT !.at = "parsed"])
    /\ UNCHANGED <<pc, text, today, week_info, call, result, rows, lines, idx, occ, mapping, earlier>>

\* add_syllabus: _extract_pdf_text finds no text and raises; add_syllabus
\* has no handler and the page reports the failure
AddParseFails(p) ==
    /\ st.session[p].at = "written"
    /\ st' = StoreStep(st.index, st.files, p, [st.session[p] EXCEPT !.at = "failed"])
    /\ result' = Raise("RuntimeError")
    /\ UNCHANGED <<pc, text, today, week_info, call, rows, lines, idx, occ, mapping, earlier>>

\* add_syllabus: index = load_index()
AddLoad(p) ==
    /\ st.session[p].at = "parsed"
    /\ st' = StoreStep(st.index, st.files, p, [st.session[p] EXCEPT !.at = "loaded", !.local = st.index])
    /\ UNCHANGED <<pc, text, today, week_info, call, result, rows, lines, idx, occ, mapping, earlier>>

\* add_syllabus: index.append({...}); save_index(index)
AddSave(p) ==
    /\ st.session[p].at = "loaded" /\ st.session[p].op = "add"
    /\ st' = StoreStep(Append(st.session[p].local, st.session[p].item), st.files, p,
                       [st.session[p] EXCEPT !.at = "done"])
    /\ UNCHANGED <<pc, text, today, week_info, call, result, rows, lines, idx, occ, mapping, earlier>>

\* delete_syllabus: load_index()
DeleteLoad(p) ==
    /\ st.session[p].at = "idle" /\ st.session[p].op = "delete"
    /\ st' = StoreStep(st.index, st.files, p, [st.session[p] EXCEPT !.at = "loaded", !.local = st.index])
    /\ UNCHANGED <<pc, text, today, week_info, call, result, rows, lines, idx, occ, mapping, earlier>>

\* delete_syllabus: the loop, which unlinks the file of the item
DeleteUnlink(p) ==
    /\ st.session[p].at = "loaded" /\ st.session[p].op = "delete"
    /\ st' = StoreStep(st.index,
                       IF st.session[p].item \in Ids(st.session[p].local)
                       THEN st.files \ {st.session[p].item} ELSE st.files,
                       p, [st.session[p] EXCEPT !.at = "unlinked"])
    /\ UNCHANGED <<pc, text, today, week_info, call, result, rows, lines, idx, occ, mapping, earlier>>

\* delete_syllabus: save_index(updated)
DeleteSave(p) ==
    /\ st.session[p].at = "unlinked"
    /\ st' = StoreStep(SelectSeq(st.session[p].local, LAMBDA item : item # st.session[p].item), st.files, p,
                       [st.session[p] EXCEPT !.at = "done"])
    /\ UNCHANGED <<pc, text, today, week_info, call, result, rows, lines, idx, occ, mapping, earlier>>

NextStore ==
    \E p \in Sessions :
        \/ AddWriteFile(p) \/ AddParse(p) \/ AddParseFails(p) \/ AddLoad(p) \/ AddSave(p)
        \/ DeleteLoad(p) \/ DeleteUnlink(p) \/ DeleteSave(p)

SpecStore == InitStore /\ [][NextStore]_vars

\* C27: when extraction or parsing fails inside add_syllabus the failure
\* reaches the caller and the store is as before the call: no record was
\* added and no uploaded PDF stays in the directory without a record.
C27_FailedAddLeavesNothing ==
    \A p \in Sessions :
        st.session[p].at = "failed" =>
            /\ result.kind = "raise"
            /\ st.session[p].item \notin Ids(st.index)
            /\ st.session[p].item \notin st.files

\* C28: once the sessions have completed, the index holds the effect of
\* each: every record added is present and every record deleted is absent.
C28_NoLostUpdate ==
    (\A p \in Sessions : st.session[p].at \in {"done", "failed"}) =>
        \A p \in Sessions :
            st.session[p].at = "done" =>
                IF st.session[p].op = "add" THEN st.session[p].item \in Ids(st.index)
                ELSE st.session[p].item \notin Ids(st.index)

-----------------------------------------------------------------------------
(* The week key of the page (web_app.py lines 258-267), under SpecUI        *)

\* the drafts button (10) generates for a week
UiDrafts(w) == {generate_lesson_table_rows_text(w, n, TRUE) : n \in UiNotes}
\* the session a run starts from
C29_Before == IF pc = "start" THEN SessionDefaults ELSE st

\* in a run whose week key differs from last_week_key, the five inferred
\* fields are those of the selected week and the run exports no draft
C29_KeyChangeResets ==
    [][C29_Before.last_week_key # week_key(UiSelected, week_info') =>
          /\ \A f \in AutoNames : st'[f] = UiAuto[week_info'][f]
          /\ st'.lesson_rows_input = <<>>
          /\ st'.applied_draft_text = <<>>
          /\ st'.export_draft_text = <<>>
          /\ st'.full_txt = <<>>
          /\ st'.last_week_key = week_key(UiSelected, week_info')]_vars

\* in a run whose week key equals last_week_key, each inferred field keeps
\* its value, or has the value the user typed into it
C29_SameKeyKeeps ==
    [][C29_Before.last_week_key = week_key(UiSelected, week_info') =>
          \A f \in AutoNames : st'[f] = st[f] \/ (f = "lesson_datetime" /\ st'[f] \in UiDates)]_vars

\* C29: across any sequence of runs of the page, no export holds a draft
\* that was generated for a week other than the selected one: a draft text
\* in the TXT download or in the export draft is a draft of the selected week.
C29_NoDraftOfOtherWeek ==
    pc \in {"page", "uploaded"} =>
        \A w \in UiWeeks :
            \A t \in {st.export_draft_text, st.full_txt} :
                t \in UiDrafts(w) => t \in UiDrafts(week_info)

\* a week is selected whose key is the key of the week before, and the page
\* shows the draft and the date of the week before
C29_StaleWeek ==
    /\ pc \in {"page", "uploaded"}
    /\ st.last_week_key = week_key(UiSelected, week_info)
    /\ st.export_draft_text # <<>>
    /\ st.export_draft_text \notin UiDrafts(week_info)
    /\ \E w \in UiWeeks \ {week_info} :
          /\ st.export_draft_text \in UiDrafts(w)
          /\ st.lesson_datetime = UiAuto[w].lesson_datetime
          /\ st.lesson_datetime # UiAuto[week_info].lesson_datetime

====
